---- MODULE Spec2Model ----
(***************************************************************************)
(* Model of the TrackRegistry Durable Object (src/src/trackRegistry.js):   *)
(* rate limiting, track registration, device telemetry cache and downlink  *)
(* counter.  Each named instance ('ratelimit', 'global', 'busylight-state')*)
(* has its own storage; requests to one instance are serialized by the     *)
(* input gate that closes while a storage operation is pending.            *)
(***************************************************************************)
EXTENDS FiniteSets, Integers, Sequences, TLC

(* ------------------------------ bounds -------------------------------- *)
NReq == 2          \* request slots (requests in flight at one instance)
MaxSec == 2        \* horizon of the clock in the rate-limit runs, seconds
MaxK == 3          \* horizon of the clock in the track runs, 30 s units
MaxCalls == 10     \* downlink-counter calls per run
MaxSkew == 1       \* milliseconds explored after each health threshold
MaxRuns == 4       \* executions of start() per run of the publisher
MaxBeats == 3      \* horizon of the clock in the stream runs, 30 s units

(* ------------------------- program constants -------------------------- *)
DefaultWindowMs == 60000
DefaultMaxRequests == 10
StaleMs == 60000

Instances == {"ratelimit", "global", "busylight-state"}
Keys == {"a", "b"}
Req == 1..NReq

VARIABLES
  now,          \* Date.now()
  storage,      \* storage[i]: this.state.storage of instance i (key -> value)
  req,          \* req[r]: position and locals of the handler run in slot r
  response,     \* the Response returned by fetch() in the latest step, if any
  windowParam,  \* ?window= of the rate-limit requests of this run
  maxParam,     \* ?max= of the rate-limit requests of this run
  rateWin,      \* history: per key, the current window and its call counts
  trackLog,     \* history: the latest accepted register, the latest write and
                \* the session last reported idle since the latest pull success
  telemLog,     \* history: the value of the latest recordTelemetry
  counterLog,   \* history: downlink-counter calls begun, answered, answers
  last,         \* history: what the operation completed in the latest step did
  pub,          \* the WeriftPublisher object, its timers and calls in flight
  hbLog,        \* history: outcomes of the publisher's heartbeat cycles
  codec,        \* arguments of the codec calls of this run
  env           \* PI_PUBLISHER_SECRET of the worker and of the publisher

vars == <<now, storage, req, response, windowParam, maxParam, rateWin,
          trackLog, telemLog, counterLog, last, pub, hbLog, codec, env>>

cfgVars == <<windowParam, maxParam>>
outerVars == <<pub, hbLog, codec, env>>           \* outside the Durable Object
rateLogs == <<trackLog, telemLog, counterLog>>    \* untouched by /ratelimit
trackLogs == <<rateWin, telemLog, counterLog>>    \* untouched by the track
telemLogs == <<rateWin, trackLog, counterLog>>    \* untouched by telemetry
counterLogs == <<rateWin, trackLog, telemLog>>    \* untouched by the counter

(* ------------------------------ storage ------------------------------- *)
Empty == [k \in {} |-> 0]
Has(i, k) == k \in DOMAIN storage[i]
Get(i, k) == storage[i][k]
PutMutant(i, k, v) == [storage EXCEPT !["global"] = (k :> v) @@ @]
Put(i, k, v) == [storage EXCEPT ![i] = (k :> v) @@ @]
Delete(i, k) == [storage EXCEPT ![i] = [x \in (DOMAIN @) \ {k} |-> @[x]]]

Idle == [pc |-> "idle", inst |-> "none"]
NoResponse == [path |-> "none", status |-> 0]
NoLast == [op |-> "none"]

\* No event is delivered to an instance while one of its handlers awaits a
\* storage operation.
InputGateOpenMutant(i) == TRUE
InputGateOpen(i) ==
  \A r \in Req : req[r].inst = i => req[r].pc \in {"idle", "queued"}

(* ------------------------------- clock -------------------------------- *)
RateTimes == {s * 1000 + j : s \in 0..MaxSec, j \in {0, 1}}
TrackTimes == {k * 30000 + j : k \in 0..MaxK, j \in {0, 1}}

Tick(Times) ==
  /\ \E t \in Times : t > now /\ now' = t
  /\ response' = NoResponse
  /\ last' = NoLast
  /\ UNCHANGED <<storage, req, cfgVars, outerVars, rateWin, rateLogs>>

(* ----------------------------- /ratelimit ----------------------------- *)
\* parseInt(p, 10) || d ; a parameter that is absent, not a number or 0 is 0
ParseIntOr(p, d) == IF p = 0 THEN d ELSE p
windowMs == ParseIntOr(windowParam, DefaultWindowMs)
maxRequestsMutant == ParseIntOr(maxParam, DefaultMaxRequests) + 1
maxRequests == ParseIntOr(maxParam, DefaultMaxRequests)

\* Math.ceil(x / d) on integers
Ceil(x, d) == -((-x) \div d)

WindowKey(key) == "ratelimit:" \o key

WindowExpiredMutant(wd, t) == t - wd.start >= windowMs
WindowExpired(wd, t) == t - wd.start > windowMs

OverLimitMutant(count) == count >= maxRequests
OverLimit(count) == count > maxRequests

\* history: the window of the claim, counted independently of the storage
NextWin(key, t, allowed) ==
  LET fresh == rateWin[key].calls = 0 \/ t - rateWin[key].start > windowMs
      w == IF fresh THEN [start |-> t, calls |-> 0, allowed |-> 0, sent |-> 0]
                    ELSE rateWin[key]
      cap == maxRequests + 1
      inc(n) == IF n < cap THEN n + 1 ELSE cap
  IN [w EXCEPT !.calls = inc(@),
               !.allowed = IF allowed THEN inc(@) ELSE @]

Snapshot(i, k) == IF Has(i, k) THEN <<Get(i, k)>> ELSE <<>>

\* a POST /ratelimit?key=... reaches the instance and waits for delivery
RateLimitArrive(r, key) ==
  /\ req[r].pc = "idle"
  /\ req' = [req EXCEPT ![r] = [pc |-> "queued", inst |-> "ratelimit",
                                path |-> "/ratelimit", key |-> key]]
  /\ response' = NoResponse
  /\ last' = NoLast
  /\ UNCHANGED <<now, storage, cfgVars, outerVars, rateWin, rateLogs>>

\* lines 16-25: take now, ask the storage for the window
RateLimitBegin(r) ==
  /\ req[r].pc = "queued"
  /\ req[r].path = "/ratelimit"
  /\ InputGateOpen("ratelimit")
  /\ req' = [req EXCEPT ![r] = [pc |-> "get", inst |-> "ratelimit",
                                path |-> "/ratelimit", key |-> req[r].key,
                                now |-> now]]
  /\ response' = NoResponse
  /\ last' = NoLast
  /\ UNCHANGED <<now, storage, cfgVars, outerVars, rateWin, rateLogs>>

\* lines 25-38: the read completes; reset, increment, reject or ask to store
RateLimitCheckMutant(r) ==
  /\ req[r].pc = "get"
  /\ req[r].path = "/ratelimit"
  /\ LET q == req[r]
         k == WindowKey(q.key)
         windowData0 == IF ~Has("ratelimit", k)
                           \/ WindowExpired(Get("ratelimit", k), q.now)
                        THEN [start |-> q.now, count |-> 0]
                        ELSE Get("ratelimit", k)
         windowData == [windowData0 EXCEPT !.count = @ + 1]
         retryAfter == Ceil(windowData.start + windowMs - q.now, 1000)
     IN IF OverLimit(windowData.count)
        THEN /\ response' = [path |-> "/ratelimit", status |-> 429,
                             body |-> retryAfter]
             /\ req' = [req EXCEPT ![r] = Idle]
             /\ rateWin' = [rateWin EXCEPT ![q.key] = NextWin(q.key, q.now, FALSE)]
             /\ last' = [op |-> "ratelimit", key |-> q.key, now |-> q.now,
                         before |-> Snapshot("ratelimit", k),
                         after |-> Snapshot("ratelimit", k),
                         win |-> NextWin(q.key, q.now, FALSE)]
             /\ storage' = Put("ratelimit", k, windowData)
        ELSE /\ req' = [req EXCEPT ![r] = [pc |-> "put", inst |-> "ratelimit",
                                           path |-> "/ratelimit",
                                           key |-> q.key, now |-> q.now,
                                           before |-> Snapshot("ratelimit", k),
                                           data |-> windowData]]
             /\ response' = NoResponse
             /\ last' = NoLast
             /\ UNCHANGED <<storage, rateWin>>
  /\ UNCHANGED <<now, cfgVars, outerVars, rateLogs>>
RateLimitCheck(r) ==
  /\ req[r].pc = "get"
  /\ req[r].path = "/ratelimit"
  /\ LET q == req[r]
         k == WindowKey(q.key)
         windowData0 == IF ~Has("ratelimit", k)
                           \/ WindowExpired(Get("ratelimit", k), q.now)
                        THEN [start |-> q.now, count |-> 0]
                        ELSE Get("ratelimit", k)
         windowData == [windowData0 EXCEPT !.count = @ + 1]
         retryAfter == Ceil(windowData.start + windowMs - q.now, 1000)
     IN IF OverLimit(windowData.count)
        THEN /\ response' = [path |-> "/ratelimit", status |-> 429,
                             body |-> retryAfter]
             /\ req' = [req EXCEPT ![r] = Idle]
             /\ rateWin' = [rateWin EXCEPT ![q.key] = NextWin(q.key, q.now, FALSE)]
             /\ last' = [op |-> "ratelimit", key |-> q.key, now |-> q.now,
                         before |-> Snapshot("ratelimit", k),
                         after |-> Snapshot("ratelimit", k),
                         win |-> NextWin(q.key, q.now, FALSE)]
             /\ UNCHANGED storage
        ELSE /\ req' = [req EXCEPT ![r] = [pc |-> "put", inst |-> "ratelimit",
                                           path |-> "/ratelimit",
                                           key |-> q.key, now |-> q.now,
                                           before |-> Snapshot("ratelimit", k),
                                           data |-> windowData]]
             /\ response' = NoResponse
             /\ last' = NoLast
             /\ UNCHANGED <<storage, rateWin>>
  /\ UNCHANGED <<now, cfgVars, outerVars, rateLogs>>

\* lines 38-39: the write completes, 200 OK
RateLimitStore(r) ==
  /\ req[r].pc = "put"
  /\ req[r].path = "/ratelimit"
  /\ LET q == req[r]
         k == WindowKey(q.key)
     IN /\ storage' = Put("ratelimit", k, q.data)
        /\ response' = [path |-> "/ratelimit", status |-> 200, body |-> "OK"]
        /\ rateWin' = [rateWin EXCEPT ![q.key] = NextWin(q.key, q.now, TRUE)]
        /\ last' = [op |-> "ratelimit", key |-> q.key, now |-> q.now,
                    before |-> q.before, after |-> <<q.data>>,
                    win |-> NextWin(q.key, q.now, TRUE)]
  /\ req' = [req EXCEPT ![r] = Idle]
  /\ UNCHANGED <<now, cfgVars, outerVars, rateLogs>>

(* ------------------- track registration ('global') ------------------- *)
Undefined == "undefined"
Field(body, f) == IF f \in DOMAIN body THEN body[f] ELSE Undefined
\* !v for the JSON strings of the model
Falsy(v) == v \in {Undefined, ""}

SessionIds == {"", "s1", "s2"}
TrackNames == {"", "cam"}
\* JSON objects a register request can carry; a field may be missing
RegisterBodies ==
  {[sessionId |-> s, trackName |-> t] : s \in SessionIds, t \in TrackNames}
    \cup {[sessionId |-> s] : s \in SessionIds}
    \cup {[trackName |-> t] : t \in TrackNames}
    \cup {Empty}

Json(i, path, status, data) ==
  [inst |-> i, path |-> path, status |-> status, body |-> data]

\* line 47
MissingFieldsMutant(body) == Falsy(Field(body, "sessionId"))
MissingFields(body) ==
  Falsy(Field(body, "sessionId")) \/ Falsy(Field(body, "trackName"))

\* lines 52-56
StoreTrackMutant(body) ==
  IF Has("global", "currentTrack") THEN storage
  ELSE Put("global", "currentTrack",
           [sessionId |-> Field(body, "sessionId"),
            trackName |-> Field(body, "trackName"), timestamp |-> now])
StoreTrack(body) ==
  Put("global", "currentTrack",
      [sessionId |-> Field(body, "sessionId"),
       trackName |-> Field(body, "trackName"), timestamp |-> now])

TrackDone(op, input, log) ==
  /\ trackLog' = log
  /\ last' = [op |-> op, input |-> input, now |-> now,
              before |-> Snapshot("global", "currentTrack"),
              after |-> IF "currentTrack" \in DOMAIN storage'["global"]
                        THEN <<storage'["global"]["currentTrack"]>> ELSE <<>>,
              pre |-> storage["global"],
              prevWrite |-> trackLog.write]
  /\ UNCHANGED <<now, req, cfgVars, outerVars, trackLogs>>

\* lines 43-60, POST /register with a JSON object as body
Register(body) ==
  /\ InputGateOpen("global")
  /\ IF MissingFields(body)
     THEN /\ response' = Json("global", "/register", 400,
                              [error |-> "Missing sessionId or trackName"])
          /\ UNCHANGED storage
          /\ TrackDone("register", body, trackLog)
     ELSE /\ storage' = StoreTrack(body)
          /\ response' = Json("global", "/register", 200, [success |-> TRUE])
          /\ TrackDone("register", body,
                       [reg |-> <<[sessionId |-> Field(body, "sessionId"),
                                   trackName |-> Field(body, "trackName"),
                                   at |-> now]>>,
                        write |-> "register", idle |-> trackLog.idle])

\* line 44, POST /register whose body is not a JSON object: request.json()
\* or the destructuring throws, fetch() rejects
RegisterThrows ==
  /\ InputGateOpen("global")
  /\ response' = [inst |-> "global", path |-> "/register", status |-> 500,
                  body |-> "exception"]
  /\ UNCHANGED storage
  /\ TrackDone("register-throws", Empty, trackLog)

\* line 71
IsStaleMutant(track) == now - track.timestamp >= StaleMs
IsStale(track) == now - track.timestamp > StaleMs

\* lines 63-76, GET /current
CurrentMutant ==
  /\ InputGateOpen("global")
  /\ response' =
       IF ~Has("global", "currentTrack")
       THEN Json("global", "/current", 404, [error |-> "No track available"])
       ELSE Json("global", "/current", 200, Get("global", "currentTrack"))
  /\ UNCHANGED storage
  /\ TrackDone("current", Empty, trackLog)
Current ==
  /\ InputGateOpen("global")
  /\ response' =
       IF ~Has("global", "currentTrack")
       THEN Json("global", "/current", 404, [error |-> "No track available"])
       ELSE IF IsStale(Get("global", "currentTrack"))
       THEN Json("global", "/current", 404, [error |-> "Track stale"])
       ELSE Json("global", "/current", 200, Get("global", "currentTrack"))
  /\ UNCHANGED storage
  /\ TrackDone("current", Empty, trackLog)

\* line 82
TouchMutant(track) == [timestamp |-> now]
Touch(track) == [track EXCEPT !.timestamp = now]

\* lines 79-87, POST /heartbeat
Heartbeat ==
  /\ InputGateOpen("global")
  /\ IF Has("global", "currentTrack")
     THEN /\ storage' = Put("global", "currentTrack",
                            Touch(Get("global", "currentTrack")))
          /\ response' = Json("global", "/heartbeat", 200, [success |-> TRUE])
          /\ TrackDone("heartbeat", Empty, [trackLog EXCEPT !.write = "heartbeat"])
     ELSE /\ response' = Json("global", "/heartbeat", 404,
                              [error |-> "No track to heartbeat"])
          /\ UNCHANGED storage
          /\ TrackDone("heartbeat", Empty, trackLog)

\* line 91
DeleteTrackMutant == Delete("global", "track")
DeleteTrack == Delete("global", "currentTrack")

\* lines 90-93, DELETE /unregister
Unregister ==
  /\ InputGateOpen("global")
  /\ storage' = DeleteTrack
  /\ response' = Json("global", "/unregister", 200, [success |-> TRUE])
  /\ TrackDone("unregister", Empty, [trackLog EXCEPT !.write = "unregister"])

(* ------------------ telemetry cache ('busylight-state') -------------- *)
TelemetryFields == {"color", "adrEnabled"}
TelemetryValues == {"x", "y"}
\* JSON objects a record-telemetry request can carry
TelemetryStates ==
  UNION {[S -> TelemetryValues] : S \in SUBSET TelemetryFields}

\* line 98: the value handed to storage.put
StoredTelemetryMutant(state) ==
  IF Has("busylight-state", "busylightState")
  THEN state @@ Get("busylight-state", "busylightState")
  ELSE state
StoredTelemetry(state) == state

TelemetryDone(op, log) ==
  /\ telemLog' = log
  /\ last' = [op |-> op, now |-> now,
              before |-> Snapshot("busylight-state", "busylightState")]
  /\ UNCHANGED <<now, req, cfgVars, outerVars, telemLogs>>

\* lines 96-101, POST /busylight-state
RecordTelemetry(state) ==
  /\ InputGateOpen("busylight-state")
  /\ storage' = Put("busylight-state", "busylightState", StoredTelemetry(state))
  /\ response' = Json("busylight-state", "/busylight-state", 200,
                      [success |-> TRUE])
  /\ TelemetryDone("recordTelemetry", IF telemLog = <<>> THEN <<state>>
                                       ELSE <<state, telemLog[1]>>)

\* lines 104-110, GET /busylight-state
GetTelemetry ==
  /\ InputGateOpen("busylight-state")
  /\ response' =
       IF ~Has("busylight-state", "busylightState")
       THEN Json("busylight-state", "/busylight-state", 404,
                 [error |-> "No state available"])
       ELSE Json("busylight-state", "/busylight-state", 200,
                 Get("busylight-state", "busylightState"))
  /\ UNCHANGED storage
  /\ TelemetryDone("getTelemetry", telemLog)

(* --------------------- downlink counter ('global') -------------------- *)
\* a POST /downlink-counter reaches the instance and waits for delivery
CounterArrive(r) ==
  /\ req[r].pc = "idle"
  /\ counterLog.begun < MaxCalls
  /\ req' = [req EXCEPT ![r] = [pc |-> "queued", inst |-> "global",
                                path |-> "/downlink-counter"]]
  /\ counterLog' = [counterLog EXCEPT !.begun = @ + 1]
  /\ response' = NoResponse
  /\ last' = NoLast
  /\ UNCHANGED <<now, storage, cfgVars, outerVars, counterLogs>>

\* lines 114-115: ask the storage for the counter
CounterBegin(r) ==
  /\ req[r].pc = "queued"
  /\ req[r].path = "/downlink-counter"
  /\ InputGateOpen("global")
  /\ req' = [req EXCEPT ![r] = [pc |-> "get", inst |-> "global",
                                path |-> "/downlink-counter"]]
  /\ response' = NoResponse
  /\ last' = NoLast
  /\ UNCHANGED <<now, storage, cfgVars, outerVars, counterLog, counterLogs>>

\* line 116
NewCounterMutant(counter) == IF counter = 0 THEN 1 ELSE counter
NewCounter(counter) == counter + 1

\* lines 115-117: the read completes; (value || 0) + 1, ask to store it
CounterRead(r) ==
  /\ req[r].pc = "get"
  /\ req[r].path = "/downlink-counter"
  /\ LET counter == IF Has("global", "downlinkCounter")
                    THEN Get("global", "downlinkCounter") ELSE 0
     IN req' = [req EXCEPT ![r] = [pc |-> "put", inst |-> "global",
                                   path |-> "/downlink-counter",
                                   before |-> counter,
                                   data |-> NewCounter(counter)]]
  /\ response' = NoResponse
  /\ last' = NoLast
  /\ UNCHANGED <<now, storage, cfgVars, outerVars, counterLog, counterLogs>>

\* lines 117-118: the write completes, 200 {count}
CounterStore(r) ==
  /\ req[r].pc = "put"
  /\ req[r].path = "/downlink-counter"
  /\ storage' = Put("global", "downlinkCounter", req[r].data)
  /\ response' = Json("global", "/downlink-counter", 200,
                      [count |-> req[r].data])
  /\ counterLog' = [counterLog EXCEPT
                      !.answered = @ + 1,
                      !.answers = @ \cup {req[r].data},
                      !.dup = @ \/ req[r].data \in counterLog.answers]
  /\ last' = [op |-> "downlink-counter", now |-> now,
              stored |-> IF Has("global", "downlinkCounter")
                         THEN Get("global", "downlinkCounter") ELSE 0,
              before |-> req[r].before]
  /\ req' = [req EXCEPT ![r] = Idle]
  /\ UNCHANGED <<now, cfgVars, outerVars, counterLogs>>

(* ------------------ pull statistics and health ('global') ------------- *)
Null == "null"
\* a string that is neither undefined, null nor ''
Truthy(v) == ~Falsy(v) /\ v # Null

FiveMinMs == 300000
OneHourMs == 3600000
HealthEpoch == 1000     \* Date.now() at the start of the health runs

\* lines 143-147: the value handed to storage.put('pullStats', ...)
NewPullStatsMutant(track, t) ==
  [lastSuccess |-> t, recentFailures |-> 0, sessionId |-> Null]
NewPullStats(track, t) ==
  [lastSuccess |-> t, recentFailures |-> 0,
   sessionId |-> IF track # <<>> /\ Truthy(track[1].sessionId)
                 THEN track[1].sessionId ELSE Null]

\* lines 139-151, POST /pull-success
PullSuccessMutant ==
  /\ InputGateOpen("global")
  /\ storage' = Put("global", "pullStats",
                    [NewPullStats(Snapshot("global", "currentTrack"), now)
                       EXCEPT !.recentFailures = 3])
  /\ response' = Json("global", "/pull-success", 200, [recorded |-> TRUE])
  /\ TrackDone("pull-success", Empty, [trackLog EXCEPT !.idle = ""])
PullSuccess ==
  /\ InputGateOpen("global")
  /\ storage' = Put("global", "pullStats",
                    NewPullStats(Snapshot("global", "currentTrack"), now))
  /\ response' = Json("global", "/pull-success", 200, [recorded |-> TRUE])
  /\ TrackDone("pull-success", Empty, [trackLog EXCEPT !.idle = ""])

\* a number property that is present and not 0
TruthyNum(o, f) == f \in DOMAIN o /\ o[f] # 0

\* line 169
HasRecentFailuresMutant(pullStats) ==
  "recentFailures" \in DOMAIN pullStats /\ pullStats.recentFailures > 3
HasRecentFailures(pullStats) ==
  "recentFailures" \in DOMAIN pullStats /\ pullStats.recentFailures >= 3

\* line 170
NoRecentSuccess(pullStats, t) ==
  ~TruthyNum(pullStats, "lastSuccess") \/ t - pullStats.lastSuccess > FiveMinMs

\* line 171
SessionMismatch(track, pullStats) ==
  /\ Truthy(Field(pullStats, "sessionId"))
  /\ pullStats.sessionId # track.sessionId

\* lines 189-190
SuccessTooOld(pullStats, t) ==
  /\ TruthyNum(pullStats, "lastSuccess")
  /\ pullStats.lastSuccess > 0
  /\ t - pullStats.lastSuccess > OneHourMs

\* the optional lastSuccess property of a verdict (undefined is not written)
WithLastSuccess(pullStats) ==
  IF "lastSuccess" \in DOMAIN pullStats
  THEN [lastSuccess |-> pullStats.lastSuccess] ELSE Empty

\* lines 173-204: the verdict for a track that exists and is not stale
FreshVerdict(track, pullStats, t) ==
  IF SessionMismatch(track, pullStats)
  THEN [healthy |-> TRUE, reason |-> "new-session"]
  ELSE IF HasRecentFailures(pullStats) /\ NoRecentSuccess(pullStats, t)
  THEN [healthy |-> FALSE, reason |-> "pull-failures",
        recentFailures |-> pullStats.recentFailures]
         @@ WithLastSuccess(pullStats)
  ELSE IF SuccessTooOld(pullStats, t)
  THEN [healthy |-> FALSE, reason |-> "no-recent-viewers",
        lastSuccess |-> pullStats.lastSuccess]
  ELSE [healthy |-> TRUE, sessionId |-> track.sessionId,
        recentFailures |-> IF TruthyNum(pullStats, "recentFailures")
                           THEN pullStats.recentFailures ELSE 0]
         @@ WithLastSuccess(pullStats)

\* lines 159-205: track is <<>> or <<record>>, pullStats is {} when absent
HealthVerdictMutant(track, pullStats, t) ==
  IF track = <<>>
  THEN [healthy |-> FALSE, reason |-> "no-track"]
  ELSE IF SessionMismatch(track[1], pullStats)
  THEN [healthy |-> TRUE, reason |-> "new-session"]
  ELSE IF t - track[1].timestamp > StaleMs
  THEN [healthy |-> FALSE, reason |-> "stale-heartbeat"]
  ELSE FreshVerdict(track[1], pullStats, t)
HealthVerdict(track, pullStats, t) ==
  IF track = <<>>
  THEN [healthy |-> FALSE, reason |-> "no-track"]
  ELSE IF t - track[1].timestamp > StaleMs
  THEN [healthy |-> FALSE, reason |-> "stale-heartbeat"]
  ELSE FreshVerdict(track[1], pullStats, t)

StoredPullStats ==
  IF Has("global", "pullStats") THEN Get("global", "pullStats") ELSE Empty

\* lines 154-205, GET /health
Health ==
  /\ InputGateOpen("global")
  /\ response' = Json("global", "/health", 200,
                      HealthVerdict(Snapshot("global", "currentTrack"),
                                    StoredPullStats, now))
  /\ UNCHANGED storage
  /\ TrackDone("health", Empty,
               IF "reason" \in DOMAIN response'.body
                  /\ response'.body.reason = "no-recent-viewers"
               THEN [trackLog EXCEPT
                       !.idle = Get("global", "currentTrack").sessionId]
               ELSE trackLog)

\* instants around the thresholds of the health rules
HealthTimes ==
  {HealthEpoch + b + j : b \in {0, StaleMs, FiveMinMs, OneHourMs},
                         j \in 0..MaxSkew}

\* stored values the health rules are evaluated on
MatrixSessions == {"s1", "s2"}
MatrixTracks ==
  {Empty} \cup
  {"currentTrack" :> [sessionId |-> s, trackName |-> "cam", timestamp |-> t] :
     s \in MatrixSessions, t \in HealthTimes}
MatrixPullStats ==
  {Empty} \cup
  {"pullStats" :> [lastSuccess |-> t, recentFailures |-> n, sessionId |-> s] :
     t \in HealthTimes, n \in {0, 2, 3, 4}, s \in MatrixSessions \cup {Null}}
  \cup
  {"pullStats" :> [recentFailures |-> n, sessionId |-> s] :
     n \in {0, 2, 3, 4}, s \in MatrixSessions \cup {Null}}

(* ------------------- publisher (src/pi-publisher/index.js) ------------ *)
MaxHeartbeatFailures == 3
HeartbeatIntervalMs == 30000
HeartbeatTimeoutMs == 10000
RestartDelayMs == 5000
RetryBackoffMs == 30000
EncoderRestartDelayMs == 5000
DisconnectGraceMs == 10000

\* this.pc === null
NoPc == [connectionState |-> "none", iceConnectionState |-> "none"]
ConnFields == {"connectionState", "iceConnectionState"}

\* the object the constructor returns, no timer set, no call in flight;
\* heartbeatTimer and sessionId are 0 for null
NewPublisher ==
  [pc |-> NoPc, sessionId |-> 0, ffmpeg |-> "null", heartbeatTimer |-> 0,
   consecutiveHeartbeatFailures |-> 0, isRestarting |-> FALSE,
   runs |-> Empty,      \* the executions of start() under way, by number
   nruns |-> 0,         \* the executions of start() so far
   intervals |-> {},    \* the setInterval timers that are active
   pending |-> {},      \* setTimeout callbacks and close events to come
   hb |-> "idle",       \* the await sendHeartbeat() is suspended at
   hbConn |-> NoPc,     \* connState and iceState of that sendHeartbeat()
   hbSession |-> 0,     \* the sessionId its register request carries
   beatAt |-> 0,        \* Date.now() when the heartbeat timer was set or fired
   exited |-> FALSE]

NoCycles == [cycles |-> <<>>, base |-> 0]
OuterIdle ==
  /\ pub = NewPublisher
  /\ hbLog = NoCycles
  /\ codec = [kind |-> "none"]
  /\ env = [expected |-> "none", presented |-> "none"]

Run(p, i) == p.runs[i]
\* start() executions of restart() that have not returned or thrown yet
InFlight(p) ==
  {i \in DOMAIN p.runs :
     /\ Run(p, i).kind = "restart"
     /\ Run(p, i).pc \in {"wait", "session", "push", "register",
                           "registered"}}

\* the delay of each setTimeout: lines 540, 547, 453 and 472, 362
DelayMutant(kind) ==
  CASE kind \in {"wait", "backoff"} -> RestartDelayMs
    [] kind \in ConnFields -> DisconnectGraceMs
    [] kind = "ffmpeg-restart" -> EncoderRestartDelayMs
    [] kind = "abort" -> HeartbeatTimeoutMs
Delay(kind) ==
  CASE kind = "wait" -> RestartDelayMs
    [] kind = "backoff" -> RetryBackoffMs
    [] kind \in ConnFields -> DisconnectGraceMs
    [] kind = "ffmpeg-restart" -> EncoderRestartDelayMs
    [] kind = "abort" -> HeartbeatTimeoutMs

\* a timer of the given kind, set now
Timer(kind) == [kind |-> kind, waited |-> 0]

\* lines 559-583; SIGTERM makes the encoder exit, its close event follows
Stop(p) ==
  [p EXCEPT !.intervals = @ \ {p.heartbeatTimer},
            !.heartbeatTimer = 0,
            !.pending = IF p.ffmpeg = "running"
                        THEN @ \cup {Timer("ffmpeg-close")} ELSE @,
            !.ffmpeg = "null",
            !.pc = NoPc,
            !.sessionId = 0]

\* lines 527-540: restart() up to its first await; parent is the execution
\* whose catch block makes the call, 0 for every other caller
Restart(p, parent) ==
  IF p.isRestarting THEN p
  ELSE LET q == Stop([p EXCEPT !.isRestarting = TRUE]) IN
       [q EXCEPT !.consecutiveHeartbeatFailures = 0,
                 !.nruns = @ + 1,
                 !.runs = @ @@ (p.nruns + 1 :>
                                  [kind |-> "restart", pc |-> "wait",
                                   waited |-> 0, parent |-> parent,
                                   sent |-> 0])]

\* an execution has returned
Finish(p, i) == [p EXCEPT !.runs = [j \in DOMAIN @ \ {i} |-> @[j]]]

\* lines 288-294
TriggerRestart(p) == IF p.isRestarting THEN p ELSE Restart(p, 0)

\* what a step did: the restarts it started, and whether the publisher was
\* streaming when it ran
Did(p, op, extra) ==
  [op |-> op, started |-> p.nruns - pub.nruns,
   streaming |-> ~pub.exited /\ pub.heartbeatTimer # 0
                 /\ InFlight(pub) = {}] @@ extra

\* a step of the publisher: its state after the step, the heartbeat
\* history, what the step did, the time after it and the storage of the
\* coordinator after it
PubMove(p, log, did, t, st) ==
  /\ ~pub.exited
  /\ p.nruns <= MaxRuns
  /\ pub' = p
  /\ hbLog' = IF p.nruns > pub.nruns THEN NoCycles ELSE log
  /\ last' = did
  /\ response' = NoResponse
  /\ now' = t
  /\ storage' = st
  /\ UNCHANGED <<req, cfgVars, rateWin, trackLog, telemLog, counterLog,
                 codec, env>>

\* a step of the publisher alone
PubStep(p, log, did) == PubMove(p, log, did, now, storage)

\* time passes in steps of 5 s for every timer that is set, and only when
\* no timer is due: a setTimeout callback runs when its delay is over
Waiting(p) ==
  {i \in DOMAIN p.runs : Run(p, i).pc \in {"wait", "backoff"}}
Timers(p) == {tm \in p.pending : tm.kind # "ffmpeg-close"}
Elapse(t) ==
  /\ \A i \in Waiting(pub) : Run(pub, i).waited < Delay(Run(pub, i).pc)
  /\ \A tm \in Timers(pub) : tm.waited < Delay(tm.kind)
  /\ PubMove([pub EXCEPT
                !.runs = [i \in DOMAIN pub.runs |->
                            IF i \in Waiting(pub)
                            THEN [@[i] EXCEPT !.waited = @ + 5000]
                            ELSE @[i]],
                !.pending = {IF tm \in Timers(pub)
                             THEN [tm EXCEPT !.waited = @ + 5000] ELSE tm :
                             tm \in @}],
             hbLog, NoLast, t, storage)

\* the timers of the publisher alone, without the clock of the coordinator
PubTick ==
  /\ Waiting(pub) # {} \/ Timers(pub) # {}
  /\ Elapse(now)

\* 5 s pass for the publisher and for the coordinator; the heartbeat timer
\* fires every 30 s
StreamTick ==
  /\ now < MaxBeats * HeartbeatIntervalMs
  /\ pub.intervals # {} => now - pub.beatAt < HeartbeatIntervalMs
  /\ Elapse(now + 5000)

\* lines 374-480: start() up to the request of createSession()
StartPrologue(p, i) ==
  \* "connected" stands for new, connecting and connected, which no handler
  \* tells apart
  [p EXCEPT !.pc = [connectionState |-> "connected",
                   iceConnectionState |-> "connected"],
            !.runs[i].pc = "session", !.runs[i].waited = 0]

\* line 595: publisher.start()
MainStart ==
  /\ pub.nruns = 0
  /\ PubStep(StartPrologue(
               [pub EXCEPT !.nruns = 1,
                           !.runs = 1 :> [kind |-> "main", pc |-> "ready",
                                          waited |-> 0, parent |-> 0,
                                          sent |-> 0]], 1),
             hbLog, NoLast)

\* lines 540-541: the 5 s are over, start() is called
RestartWaitDone(i) ==
  /\ i \in DOMAIN pub.runs
  /\ Run(pub, i).pc = "wait"
  /\ Run(pub, i).waited >= Delay("wait")
  /\ PubStep(StartPrologue(pub, i), hbLog, NoLast)

\* start() throws: process.exit(1) for the main call (lines 595-598), the
\* catch block of restart() up to its await otherwise (lines 543-547)
StartThrows(p, i) ==
  IF Run(p, i).kind = "main"
  THEN Finish([p EXCEPT !.exited = TRUE], i)
  ELSE [p EXCEPT !.runs[i].pc = "backoff", !.runs[i].waited = 0,
                 !.runs[i].sent = 0]

\* lines 126-143 and 483-502: createSession() answers; the offer is made on
\* this.pc, which a stop() in between has set to null
SessionDone(i, ok) ==
  /\ i \in DOMAIN pub.runs
  /\ Run(pub, i).pc = "session"
  /\ PubStep(IF ~ok THEN StartThrows(pub, i)
             ELSE LET p == [pub EXCEPT !.sessionId = i] IN
                  IF p.pc = NoPc THEN StartThrows(p, i)
                  ELSE [p EXCEPT !.runs[i].pc = "push"],
             hbLog, NoLast)

\* lines 148-176 and 505-516: pushTrack() answers, the encoder is started
\* and registerTrack() is sent
PushDone(i, ok) ==
  /\ i \in DOMAIN pub.runs
  /\ Run(pub, i).pc = "push"
  /\ PubStep(IF ~ok \/ pub.pc = NoPc THEN StartThrows(pub, i)
             ELSE [pub EXCEPT !.ffmpeg = "running",
                              !.runs[i].pc = "register",
                              !.runs[i].sent = pub.sessionId],
             hbLog, NoLast)

\* lines 181-202 and 519-522: registerTrack() answers (a rejection is only
\* logged), the heartbeat timer is installed and start() returns; lines
\* 542 and 551-553 for a start() called by restart()
RegisterResults == {"ok", "rejected", "throws"}
RegisterDone(i, res) ==
  /\ i \in DOMAIN pub.runs
  /\ Run(pub, i).pc \in {"register", "registered"}
  /\ LET p == IF res = "throws" THEN StartThrows(pub, i)
              ELSE Finish([pub EXCEPT !.heartbeatTimer = i,
                                      !.intervals = @ \cup {i},
                                      !.beatAt = now,
                                      !.isRestarting =
                                         IF Run(pub, i).kind = "restart"
                                         THEN FALSE ELSE @], i)
     IN PubStep(p,
                IF res = "throws" THEN hbLog
                ELSE [cycles |-> <<>>,
                      base |-> p.consecutiveHeartbeatFailures],
                NoLast)

\* lines 547-553: the backoff is over; the flag is cleared, restart() is
\* called and runs to its first await, then the finally block runs
BackoffDone(i) ==
  /\ i \in DOMAIN pub.runs
  /\ Run(pub, i).pc = "backoff"
  /\ Run(pub, i).waited >= Delay("backoff")
  /\ LET p == Restart([pub EXCEPT !.isRestarting = FALSE], i) IN
       PubStep(Finish([p EXCEPT !.isRestarting = FALSE], i), hbLog,
               Did(p, "retry", [waited |-> Run(pub, i).waited]))

(* heartbeat, lines 207-283 *)
\* a cycle ends with cause c: "S" for a cycle whose registration was
\* accepted and whose verdict was healthy, "F" for any other; base is the
\* counter the cycles since the latest "S" started from
Cycle(log, c, counter) ==
  [cycles |-> LET s == Append(log.cycles, IF c = "ok" THEN "S" ELSE "F")
               IN IF Len(s) > 3 THEN Tail(s) ELSE s,
   base |-> IF c = "ok" THEN counter ELSE log.base]

BadStatesMutant == {"closed"}
BadStates == {"failed", "closed"}

\* lines 96-107, fetchWithTimeout: the abort timer of a request is set and
\* the one of the request before it is cleared
Fetch(p, sent) ==
  [p EXCEPT !.pending = {tm \in @ : tm.kind # "abort"}
                          \cup (IF sent THEN {Timer("abort")} ELSE {})]

\* lines 207-236: the timer fires; the step is left at once during a
\* restart and when the connection is failed or closed
HeartbeatTick ==
  /\ pub.intervals # {}
  /\ pub.hb = "idle"
  /\ LET bad == /\ pub.pc # NoPc
                /\ \/ pub.pc.connectionState \in BadStates
                   \/ pub.pc.iceConnectionState \in BadStates
         what == IF pub.isRestarting THEN "skipped"
                 ELSE IF bad THEN "bad-connection" ELSE "sent"
         q == [pub EXCEPT !.beatAt = now]
         p == IF what = "skipped" THEN q
              ELSE IF what = "bad-connection" THEN TriggerRestart(q)
              ELSE Fetch([q EXCEPT !.hb = "register", !.hbConn = pub.pc,
                                   !.hbSession = pub.sessionId],
                         TRUE)
     IN PubStep(p, hbLog,
                Did(p, "beat",
                    [what |-> what, pc |-> pub.pc,
                     restarting |-> pub.isRestarting \/ InFlight(pub) # {},
                     before |-> pub.consecutiveHeartbeatFailures]))

\* lines 267-282
HeartbeatCatch(p) ==
  LET q == [p EXCEPT !.consecutiveHeartbeatFailures = @ + 1,
                     !.hb = "idle"] IN
  IF q.consecutiveHeartbeatFailures >= MaxHeartbeatFailures
  THEN TriggerRestart(q) ELSE q

\* sendHeartbeat() returns: cause is what ended the cycle
HeartbeatEnd(p, cause) ==
  LET q == Fetch([p EXCEPT !.hbConn = NoPc, !.hbSession = 0], FALSE) IN
  PubStep(q, Cycle(hbLog, cause, q.consecutiveHeartbeatFailures),
          Did(q, "heartbeat",
              [cause |-> cause, cycles |-> Cycle(hbLog, cause, 0).cycles,
               base |-> hbLog.base, seen |-> pub.hbConn,
               before |-> pub.consecutiveHeartbeatFailures,
               after |-> q.consecutiveHeartbeatFailures]))

\* lines 236-250: the register request is answered, rejected, or fails
\* with a transport error
HeartbeatRegistered(res) ==
  /\ pub.hb \in {"register", "registered"}
  /\ IF res = "ok"
     THEN PubStep(Fetch([pub EXCEPT !.hb = "health", !.hbSession = 0], TRUE),
                  hbLog, NoLast)
     ELSE HeartbeatEnd(HeartbeatCatch(pub), "register-" \o res)

\* lines 250-265: the health request is answered with a verdict, answered
\* with a non-success status, or fails
HeartbeatHealthMutant(res) ==
  /\ pub.hb = "health"
  /\ HeartbeatEnd(
       CASE res = "throws" -> HeartbeatCatch(pub)
         [] res = "healthy" -> TriggerRestart([pub EXCEPT !.hb = "idle"])
         [] OTHER -> [pub EXCEPT !.consecutiveHeartbeatFailures = 0,
                                 !.hb = "idle"],
       IF res = "healthy" THEN "ok" ELSE "health-" \o res)
HeartbeatHealth(res) ==
  /\ pub.hb = "health"
  /\ HeartbeatEnd(
       CASE res = "throws" -> HeartbeatCatch(pub)
         [] res = "unhealthy" -> TriggerRestart([pub EXCEPT !.hb = "idle"])
         [] OTHER -> [pub EXCEPT !.consecutiveHeartbeatFailures = 0,
                                 !.hb = "idle"],
       IF res = "healthy" THEN "ok" ELSE "health-" \o res)

\* lines 98 and 267: no answer within 10 s; the request is aborted and
\* fetchWithTimeout throws
HeartbeatTimeoutMutant(tm) ==
  /\ tm \in pub.pending
  /\ tm.kind = "abort"
  /\ tm.waited >= Delay(tm.kind)
  /\ PubStep([pub EXCEPT !.pending = @ \ {tm}], hbLog, NoLast)
HeartbeatTimeout(tm) ==
  /\ tm \in pub.pending
  /\ tm.kind = "abort"
  /\ tm.waited >= Delay(tm.kind)
  /\ HeartbeatEnd(HeartbeatCatch(pub), pub.hb \o "-timeout")

\* index.js lines 188-195 and trackRegistry.js lines 43-60: the coordinator
\* handles the register request of registerTrack(), which carries the
\* sessionId read when it was sent (0 is null, answered 400)
RegisterApplied(i) ==
  /\ i \in DOMAIN pub.runs
  /\ Run(pub, i).pc = "register"
  /\ LET sid == Run(pub, i).sent
         p == [pub EXCEPT !.runs[i].pc = "registered", !.runs[i].sent = 0]
     IN PubMove(p, hbLog,
                Did(p, "applied", [by |-> "start", sessionId |-> sid,
                                   current |-> pub.sessionId]),
                now,
                IF sid = 0 THEN storage
                ELSE StoreTrack([sessionId |-> sid, trackName |-> "cam"]))

\* index.js lines 236-243 and trackRegistry.js lines 43-60: the coordinator
\* handles the register request of sendHeartbeat()
HeartbeatApplied ==
  /\ pub.hb = "register"
  /\ pub.hbSession # 0
  /\ LET p == [pub EXCEPT !.hb = "registered", !.hbSession = 0]
     IN PubMove(p, hbLog,
                Did(p, "applied", [by |-> "heartbeat",
                                   sessionId |-> pub.hbSession,
                                   current |-> pub.sessionId]),
                now,
                StoreTrack([sessionId |-> pub.hbSession,
                            trackName |-> "cam"]))

\* lines 443-477: the connection or ICE state changes and the subscriber
\* runs; a failed connection stays failed, and the states change to
\* disconnected once per grace period
ConnChange(f, s) ==
  /\ pub.pc # NoPc
  /\ pub.pc[f] \notin {s, "failed"}
  /\ s = "disconnected" =>
       \A tm \in pub.pending : tm.kind \notin ConnFields
  /\ LET p == [pub EXCEPT !.pc[f] = s] IN
       PubStep(CASE s = "disconnected" ->
                      [p EXCEPT !.pending = @ \cup {Timer(f)}]
                 [] s = "failed" -> TriggerRestart(p)
                 [] OTHER -> p,
               hbLog, NoLast)

\* lines 448-453 and 467-472: 10 s after a disconnect
DisconnectTimeout(tm) ==
  /\ tm \in pub.pending
  /\ tm.kind \in ConnFields
  /\ tm.waited >= Delay(tm.kind)
  /\ LET p == [pub EXCEPT !.pending = @ \ {tm}] IN
       PubStep(IF p.pc # NoPc /\ p.pc[tm.kind] = "disconnected"
               THEN TriggerRestart(p) ELSE p,
               hbLog, NoLast)

\* lines 358-364: the close handler of the encoder; code -1 is null (the
\* process was ended by a signal); by is history, "stop" for an encoder
\* that stop() has signalled and "self" for one that exits while it runs
EncoderClose(p, code, by) ==
  IF code # 0 /\ code # -1
  THEN [p EXCEPT !.pending = @ \cup {Timer("ffmpeg-restart") @@ [by |-> by]}]
  ELSE p

\* the running encoder exits by itself
FfmpegExit(code) ==
  /\ pub.ffmpeg = "running"
  /\ PubStep(EncoderClose([pub EXCEPT !.ffmpeg = "exited"], code, "self"),
             hbLog, NoLast)

\* the encoder stop() has signalled exits: killed by the signal (null) or
\* with the status of its own SIGTERM handler
FfmpegKilled(ev, code) ==
  /\ ev \in pub.pending
  /\ ev.kind = "ffmpeg-close"
  /\ PubStep(EncoderClose([pub EXCEPT !.pending = @ \ {ev}], code, "stop"),
             hbLog, NoLast)

\* line 362: the delayed restart() of the close handler
FfmpegRestartTimer(tm) ==
  /\ tm \in pub.pending
  /\ tm.kind = "ffmpeg-restart"
  /\ tm.waited >= Delay(tm.kind)
  /\ LET p == Restart([pub EXCEPT !.pending = @ \ {tm}], 0) IN
       PubStep(p, hbLog, Did(p, "encoder-restart", [by |-> tm.by]))

(* --------- codec and webhook (src/src/handlers/ledHandler.js) --------- *)
DigitChars == <<"0", "1", "2", "3", "4", "5", "6", "7", "8", "9">>

\* String(n) of an integer Number
RECURSIVE NumberToString(_)
NumberToString(n) ==
  IF n < 0 THEN <<"-">> \o NumberToString(-n)
  ELSE IF n < 10 THEN <<DigitChars[n + 1]>>
  ELSE Append(NumberToString(n \div 10), DigitChars[(n % 10) + 1])

RECURSIVE ParseDigits(_, _)
ParseDigits(s, acc) ==
  IF s = <<>> \/ \A d \in 1..10 : DigitChars[d] # s[1] THEN acc
  ELSE ParseDigits(Tail(s), acc * 10 + (CHOOSE d \in 0..9 : DigitChars[d + 1] = s[1]))

\* parseInt(x, 10) of a Number: its string, a sign, the leading digits
ParseInt(x) ==
  LET s == NumberToString(x) IN
  IF s[1] = "-" THEN -ParseDigits(Tail(s), 0) ELSE ParseDigits(s, 0)


\* lines 16-18
ClampMutant(x) == IF ParseInt(x) > 255 THEN 255 ELSE ParseInt(x)
Clamp(x) ==
  LET min == IF ParseInt(x) > 255 THEN 255 ELSE ParseInt(x) IN
  IF min < 0 THEN 0 ELSE min


\* lines 22-28, the elements of the Uint8Array
PayloadBytesMutant(red, green, blue) ==
  <<Clamp(red) % 256, Clamp(green) % 256, Clamp(blue) % 256, 255, 0>>
PayloadBytes(red, green, blue) ==
  <<Clamp(red) % 256, Clamp(blue) % 256, Clamp(green) % 256, 255, 0>>

\* base64 text is the sequence of its characters' places in the alphabet,
\* Pad for '='
Pad == 64
RECURSIVE Btoa(_)
Btoa(b) ==
  IF b = <<>> THEN <<>>
  ELSE IF Len(b) = 1
       THEN <<b[1] \div 4, (b[1] % 4) * 16, Pad, Pad>>
  ELSE IF Len(b) = 2
       THEN <<b[1] \div 4, (b[1] % 4) * 16 + b[2] \div 16,
              (b[2] % 16) * 4, Pad>>
  ELSE <<b[1] \div 4, (b[1] % 4) * 16 + b[2] \div 16,
         (b[2] % 16) * 4 + b[3] \div 64, b[3] % 64>>
       \o Btoa(SubSeq(b, 4, Len(b)))

RECURSIVE Atob(_)
Atob(s) ==
  IF Len(s) < 4 THEN <<>>
  ELSE (IF s[3] = Pad THEN <<s[1] * 4 + s[2] \div 16>>
        ELSE IF s[4] = Pad
             THEN <<s[1] * 4 + s[2] \div 16,
                    (s[2] % 16) * 16 + s[3] \div 4>>
        ELSE <<s[1] * 4 + s[2] \div 16, (s[2] % 16) * 16 + s[3] \div 4,
               (s[3] % 4) * 64 + s[4]>>)
       \o Atob(SubSeq(s, 5, Len(s)))

\* lines 145-147: the digits of '#rrggbb'
RgbToHex(r, g, b) ==
  <<r \div 16, r % 16, g \div 16, g % 16, b \div 16, b % 16>>


\* lines 5-81, sendDownlink(env, red, green, blue): its Response
DownlinkResponse(res, red, green, blue) ==
  LET r == Clamp(red)
      g == Clamp(green)
      b == Clamp(blue)
  IN CASE res = "no-token" ->
            Json("worker", "/led", 500,
                 [error |-> "CHIRPSTACK_API secret not configured"])
       [] res = "rejected" ->
            Json("worker", "/led", 500, [error |-> "Failed to queue downlink"])
       [] res = "throws" ->
            Json("worker", "/led", 500, [error |-> "message"])
       [] OTHER ->
            Json("worker", "/led", 200,
                 [success |-> TRUE,
                  color |-> [r |-> r, g |-> g, b |-> b],
                  hex |-> RgbToHex(r, g, b),
                  payload |-> Btoa(PayloadBytes(red, green, blue))])

\* sendDownlink for the colour of this run
SendDownlink(res) ==
  /\ codec.kind = "color"
  /\ LET data == Btoa(PayloadBytes(codec.r, codec.g, codec.b)) IN
       /\ response' = DownlinkResponse(res, codec.r, codec.g, codec.b)
       /\ codec' = [codec EXCEPT !.queued = IF res = "queued" THEN data ELSE @]
       /\ last' = [op |-> "sendDownlink", res |-> res,
                   sent |-> IF res \in {"queued", "rejected"}
                            THEN <<data>> ELSE <<>>]
  /\ UNCHANGED <<now, storage, req, cfgVars, rateWin, rateLogs, pub, hbLog,
                 env>>

\* little-endian 32-bit fields of a frame, i counted from 0
UInt32LE(b, i) ==
  b[i + 1] + b[i + 2] * 256 + b[i + 3] * 65536 + b[i + 4] * 16777216
Int32LE(b, i) ==
  IF b[i + 4] >= 128
  THEN b[i + 1] + b[i + 2] * 256 + b[i + 3] * 65536
       + (b[i + 4] - 256) * 16777216
  ELSE UInt32LE(b, i)


\* parseUplinkPayload(base64): the 24-byte telemetry frame of the device
ParseUplinkPayload(data, t) ==
  LET b == Atob(data) IN
  IF Len(b) # 24
  THEN [error |-> "Invalid payload length", length |-> Len(b)]
  ELSE [rssi |-> Int32LE(b, 0), snr |-> Int32LE(b, 4),
        downlinksReceived |-> UInt32LE(b, 8),
        uplinksSent |-> UInt32LE(b, 12),
        color |-> [r |-> b[17], g |-> b[19], b |-> b[18],
                   hex |-> RgbToHex(b[17], b[19], b[18])],
        timing |-> [onDuration |-> b[20], offDuration |-> b[21]],
        firmware |-> [sw |-> b[22], hw |-> b[23]],
        adrEnabled |-> (b[24] = 1),
        timestamp |-> t]

\* line 335: deviceState.error
IsParseErrorMutant(deviceState) == FALSE
IsParseError(deviceState) == "error" \in DOMAIN deviceState

\* lines 315-355, POST /uplink; the catch block of lines 360-363 answers
\* 500 when the body is not JSON
Uplink(auth, payload) ==
  /\ InputGateOpen("busylight-state")
  /\ LET hasData == "data" \in DOMAIN payload /\ payload.data # <<>>
         deviceState == IF hasData THEN ParseUplinkPayload(payload.data, now)
                        ELSE Empty
         stored == auth = "ok" /\ hasData /\ ~IsParseError(deviceState)
     IN /\ storage' = IF stored
                      THEN Put("busylight-state", "busylightState",
                               StoredTelemetry(deviceState))
                      ELSE storage
        /\ telemLog' = IF ~stored THEN telemLog
                       ELSE IF telemLog = <<>> THEN <<deviceState>>
                       ELSE <<deviceState, telemLog[1]>>
        /\ response' =
             IF auth = "bad"
             THEN Json("worker", "/uplink", 401, [error |-> "Unauthorized"])
             ELSE Json("worker", "/uplink", 200,
                       [received |-> TRUE,
                        eventType |-> IF Falsy(Field(payload, "type"))
                                      THEN "unknown" ELSE payload.type,
                        deviceState |-> IF stored THEN <<deviceState>>
                                        ELSE <<>>])
        /\ last' = [op |-> "uplink", auth |-> auth, payload |-> payload,
                    parsed |-> IF auth = "ok" /\ hasData
                               THEN <<deviceState>> ELSE <<>>,
                    before |-> Snapshot("busylight-state", "busylightState")]
  /\ UNCHANGED <<now, req, cfgVars, outerVars, rateWin, trackLog,
                 counterLog>>

\* telemetry frames: RSSI -60, SNR 7, 300 downlinks, 5 uplinks, the colour
\* bytes, on 255, off 0, firmware 3 and 1, the ADR flag
Frame(c, adr) ==
  <<196, 255, 255, 255, 7, 0, 0, 0, 44, 1, 0, 0, 5, 0, 0, 0,
    c[1], c[2], c[3], 255, 0, 3, 1, adr>>


\* colours of the codec runs: below, at and above the ends of 0..255
ColorInputs == {-10, -1, 0, 1, 128, 255, 256, 300}


(* ------------- worker routes (handleRequest, lines 173-364) ----------- *)
\* lines 208-212 and 296-299: the X-Publisher-Secret header against the
\* secret of the worker; "none" is a secret or a header that is not set
PublisherAuthorized ==
  ~(env.expected # "none" /\ env.presented # env.expected)

\* lines 207-215: a POST or DELETE under /track/ is answered 401
TrackWriteRefused ==
  /\ ~PublisherAuthorized
  /\ response' = Json("worker", "/track", 401, [error |-> "Unauthorized"])
  /\ last' = [op |-> "trackWrite", before |-> storage]
  /\ UNCHANGED <<now, storage, req, cfgVars, outerVars, rateWin, rateLogs>>

\* lines 293-312, POST /led/command; forwarded: sendCommand() is called
LedCommand(body) ==
  LET missing == Field(body, "command") = Undefined
                   \/ Field(body, "param") = Undefined
  IN /\ response' =
          IF ~PublisherAuthorized
          THEN Json("worker", "/led/command", 401, [error |-> "Unauthorized"])
          ELSE IF missing
          THEN Json("worker", "/led/command", 400,
                    [error |-> "Missing command or param"])
          ELSE Json("worker", "/led/command", 200,
                    [command |-> body.command, param |-> body.param])
     /\ last' = [op |-> "ledCommand", before |-> storage,
                 forwarded |-> PublisherAuthorized /\ ~missing]
     /\ UNCHANGED <<now, storage, req, cfgVars, outerVars, rateWin, rateLogs>>

\* lines 226-264, POST /led from the answer of the rate limiter on: a
\* colour value is [num |-> n] or, when Number() of it is NaN, [text |-> s]
LedPostMutant(body, res) ==
  /\ last.op = "ratelimit"
  /\ response.path = "/ratelimit"
  /\ LET limited == response.status = 429
         missing == ~({"r", "g", "b"} \subseteq DOMAIN body)
         invalid == \E f \in {"r", "g", "b"} \cap DOMAIN body :
                       "num" \notin DOMAIN body[f]
         called == ~limited
         sent == called /\ res = "queued"
     IN /\ response' =
             IF limited
             THEN Json("worker", "/led", 429,
                       [error |-> "Rate limit exceeded",
                        retryAfter |-> response.body])
             ELSE IF missing \/ invalid
             THEN DownlinkResponse(res, 0, 0, 0)
             ELSE DownlinkResponse(res, body.r.num, body.g.num, body.b.num)
        /\ rateWin' = [rateWin EXCEPT
                         ![last.key].sent = IF sent THEN @ + 1 ELSE @]
        /\ last' = [op |-> "led", key |-> last.key, limited |-> limited,
                    called |-> called, sent |-> sent, before |-> storage,
                    valid |-> ~missing /\ ~invalid,
                    calls |-> rateWin[last.key].calls]
  /\ UNCHANGED <<now, storage, req, cfgVars, outerVars, rateLogs>>
LedPost(body, res) ==
  /\ last.op = "ratelimit"
  /\ response.path = "/ratelimit"
  /\ LET limited == response.status = 429
         missing == ~({"r", "g", "b"} \subseteq DOMAIN body)
         invalid == \E f \in {"r", "g", "b"} \cap DOMAIN body :
                       "num" \notin DOMAIN body[f]
         called == ~limited /\ ~missing /\ ~invalid
         sent == called /\ res = "queued"
     IN /\ response' =
             IF limited
             THEN Json("worker", "/led", 429,
                       [error |-> "Rate limit exceeded",
                        retryAfter |-> response.body])
             ELSE IF missing
             THEN Json("worker", "/led", 400,
                       [error |-> "Missing r, g, or b values"])
             ELSE IF invalid
             THEN Json("worker", "/led", 400,
                       [error |-> "Invalid color values"])
             ELSE DownlinkResponse(res, body.r.num, body.g.num, body.b.num)
        /\ rateWin' = [rateWin EXCEPT
                         ![last.key].sent = IF sent THEN @ + 1 ELSE @]
        /\ last' = [op |-> "led", key |-> last.key, limited |-> limited,
                    called |-> called, sent |-> sent, before |-> storage,
                    valid |-> ~missing /\ ~invalid,
                    calls |-> rateWin[last.key].calls]
  /\ UNCHANGED <<now, storage, req, cfgVars, outerVars, rateLogs>>

WindowParams == {0, 1000, 2000}
MaxParams == {1, 2}

InitCommon ==
  /\ now = 0
  /\ storage = [i \in Instances |-> Empty]
  /\ req = [r \in Req |-> Idle]
  /\ response = NoResponse
  /\ rateWin = [k \in Keys |-> [start |-> 0, calls |-> 0, allowed |-> 0, sent |-> 0]]
  /\ trackLog = [reg |-> <<>>, write |-> "none", idle |-> ""]
  /\ telemLog = <<>>
  /\ counterLog = [begun |-> 0, answered |-> 0, answers |-> {}, dup |-> FALSE]
  /\ last = NoLast
  /\ OuterIdle

InitRate ==
  /\ InitCommon
  /\ windowParam \in WindowParams
  /\ maxParam \in MaxParams

NextRate ==
  \/ Tick(RateTimes)
  \/ \E r \in Req, key \in Keys : RateLimitArrive(r, key)
  \/ \E r \in Req : RateLimitBegin(r)
  \/ \E r \in Req : RateLimitCheck(r)
  \/ \E r \in Req : RateLimitStore(r)

SpecRate == InitRate /\ [][NextRate]_vars

InitFixed ==
  /\ InitCommon
  /\ windowParam = 0
  /\ maxParam = 0

NextTrack ==
  \/ Tick(TrackTimes)
  \/ \E body \in RegisterBodies : Register(body)
  \/ RegisterThrows
  \/ Current
  \/ Heartbeat
  \/ Unregister

SpecTrack == InitFixed /\ [][NextTrack]_vars

NextTelemetry ==
  \/ \E state \in TelemetryStates : RecordTelemetry(state)
  \/ GetTelemetry

SpecTelemetry == InitFixed /\ [][NextTelemetry]_vars

NextCounter ==
  \/ \E r \in Req : CounterArrive(r)
  \/ \E r \in Req : CounterBegin(r)
  \/ \E r \in Req : CounterRead(r)
  \/ \E r \in Req : CounterStore(r)

SpecCounter == InitFixed /\ [][NextCounter]_vars

InitHealth ==
  /\ now = HealthEpoch
  /\ storage = [i \in Instances |-> Empty]
  /\ req = [r \in Req |-> Idle]
  /\ response = NoResponse
  /\ rateWin = [k \in Keys |-> [start |-> 0, calls |-> 0, allowed |-> 0, sent |-> 0]]
  /\ trackLog = [reg |-> <<>>, write |-> "none", idle |-> ""]
  /\ telemLog = <<>>
  /\ counterLog = [begun |-> 0, answered |-> 0, answers |-> {}, dup |-> FALSE]
  /\ last = NoLast
  /\ OuterIdle
  /\ windowParam = 0
  /\ maxParam = 0

NextHealth ==
  \/ Tick(HealthTimes)
  \/ \E s \in MatrixSessions :
       Register([sessionId |-> s, trackName |-> "cam"])
  \/ Heartbeat
  \/ Unregister
  \/ PullSuccess
  \/ Health
  \/ Current

SpecHealth == InitHealth /\ [][NextHealth]_vars

\* the health rules on every combination of stored track and pull statistics
InitHealthMatrix ==
  /\ now \in HealthTimes
  /\ \E tr \in MatrixTracks, ps \in MatrixPullStats :
       /\ tr # Empty => tr.currentTrack.timestamp <= now
       /\ (ps # Empty /\ "lastSuccess" \in DOMAIN ps.pullStats) =>
            ps.pullStats.lastSuccess <= now
       /\ storage = [i \in Instances |->
                       IF i = "global" THEN tr @@ ps ELSE Empty]
  /\ req = [r \in Req |-> Idle]
  /\ response = NoResponse
  /\ rateWin = [k \in Keys |-> [start |-> 0, calls |-> 0, allowed |-> 0, sent |-> 0]]
  /\ trackLog = [reg |-> <<>>, write |-> "none", idle |-> ""]
  /\ telemLog = <<>>
  /\ counterLog = [begun |-> 0, answered |-> 0, answers |-> {}, dup |-> FALSE]
  /\ last = NoLast
  /\ OuterIdle
  /\ windowParam = 0
  /\ maxParam = 0

NextHealthMatrix == Health

SpecHealthMatrix == InitHealthMatrix /\ [][NextHealthMatrix]_vars

\* the executions of start() and restart(), with the connection as the
\* source of restart requests
NextRestart ==
  \/ PubTick
  \/ MainStart
  \/ \E i \in 1..MaxRuns : RestartWaitDone(i)
  \/ \E i \in 1..MaxRuns, ok \in BOOLEAN : SessionDone(i, ok)
  \/ \E i \in 1..MaxRuns, ok \in BOOLEAN : PushDone(i, ok)
  \/ \E i \in 1..MaxRuns, res \in RegisterResults : RegisterDone(i, res)
  \/ \E i \in 1..MaxRuns : BackoffDone(i)
  \/ \E f \in ConnFields, s \in {"connected", "disconnected", "failed"} : ConnChange(f, s)
  \/ \E tm \in pub.pending : DisconnectTimeout(tm)

SpecRestart == InitFixed /\ [][NextRestart]_vars

\* the executions of start() and restart(), with the encoder as the source
\* of restart requests
NextEncoder ==
  \/ PubTick
  \/ MainStart
  \/ \E i \in 1..MaxRuns : RestartWaitDone(i)
  \/ \E i \in 1..MaxRuns, ok \in BOOLEAN : SessionDone(i, ok)
  \/ \E i \in 1..MaxRuns, ok \in BOOLEAN : PushDone(i, ok)
  \/ \E i \in 1..MaxRuns, res \in RegisterResults : RegisterDone(i, res)
  \/ \E i \in 1..MaxRuns : BackoffDone(i)
  \/ \E code \in {0, 1} : FfmpegExit(code)
  \/ \E ev \in pub.pending, code \in {-1, 255} : FfmpegKilled(ev, code)
  \/ \E tm \in pub.pending : FfmpegRestartTimer(tm)

SpecEncoder == InitFixed /\ [][NextEncoder]_vars

\* the heartbeat cycles of the publisher and the restarts they request
NextHeartbeat ==
  \/ PubTick
  \/ MainStart
  \/ \E i \in 1..MaxRuns : RestartWaitDone(i)
  \/ \E i \in 1..MaxRuns, ok \in BOOLEAN : SessionDone(i, ok)
  \/ \E i \in 1..MaxRuns, ok \in BOOLEAN : PushDone(i, ok)
  \/ \E i \in 1..MaxRuns, res \in RegisterResults : RegisterDone(i, res)
  \/ \E i \in 1..MaxRuns : BackoffDone(i)
  \/ HeartbeatTick
  \/ \E res \in RegisterResults : HeartbeatRegistered(res)
  \/ \E res \in {"healthy", "unhealthy", "rejected", "throws"} : HeartbeatHealth(res)
  \/ \E tm \in pub.pending : HeartbeatTimeout(tm)

SpecHeartbeat == InitFixed /\ [][NextHeartbeat]_vars

\* the colour codec on every colour of ColorInputs, and the uplink of the
\* device that received the downlink
InitCodec ==
  /\ now = 0
  /\ storage = [i \in Instances |-> Empty]
  /\ req = [r \in Req |-> Idle]
  /\ response = NoResponse
  /\ rateWin = [k \in Keys |-> [start |-> 0, calls |-> 0, allowed |-> 0, sent |-> 0]]
  /\ trackLog = [reg |-> <<>>, write |-> "none", idle |-> ""]
  /\ telemLog = <<>>
  /\ counterLog = [begun |-> 0, answered |-> 0, answers |-> {}, dup |-> FALSE]
  /\ last = NoLast
  /\ windowParam = 0
  /\ maxParam = 0
  /\ pub = NewPublisher
  /\ hbLog = NoCycles
  /\ env = [expected |-> "none", presented |-> "none"]
  /\ \E r \in ColorInputs, g \in ColorInputs, b \in ColorInputs :
       codec = [kind |-> "color", r |-> r, g |-> g, b |-> b, queued |-> <<>>]

NextCodec ==
  \/ \E res \in {"no-token", "queued", "rejected", "throws"} : SendDownlink(res)
  \/ /\ codec.kind = "color"
     /\ codec.queued # <<>>
     /\ \E adr \in 0..2 :
          Uplink("ok", [type |-> "up", data |-> Btoa(Frame(SubSeq(Atob(codec.queued), 1, 3), adr))])

SpecCodec == InitCodec /\ [][NextCodec]_vars

\* the payloads carry frames of 24 bytes, one byte short, one byte long
NextUplink ==
  LET good == {Frame(c, a) : c \in {<<0, 0, 0>>, <<255, 128, 0>>, <<1, 2, 3>>},
                             a \in 0..2}
      frames == good \cup {SubSeq(f, 1, 23) : f \in good}
                     \cup {Append(f, 0) : f \in good}
      payloads == {[type |-> "up", data |-> Btoa(f)] : f \in frames}
                    \cup {[type |-> "up"],
                          [data |-> Btoa(Frame(<<1, 2, 3>>, 1))]}
  IN \/ \E auth \in {"ok", "bad"}, payload \in payloads : Uplink(auth, payload)
     \/ GetTelemetry

SpecUplink == InitFixed /\ [][NextUplink]_vars

\* the heartbeat with nothing but time and the timers of the publisher to
\* end its requests: no answer has to arrive
SpecHeartbeatLive ==
  /\ SpecHeartbeat
  /\ WF_vars(PubTick)
  /\ WF_vars(\E tm \in pub.pending : HeartbeatTimeout(tm))
  /\ WF_vars(\E i \in 1..MaxRuns : RestartWaitDone(i))
  /\ WF_vars(\E i \in 1..MaxRuns : BackoffDone(i))

\* the heartbeat of a publisher whose connection can fail, and whose
\* start() fails, if it does, in createSession()
NextSafetyNet ==
  \/ PubTick
  \/ MainStart
  \/ \E i \in 1..MaxRuns : RestartWaitDone(i)
  \/ \E i \in 1..MaxRuns, ok \in BOOLEAN : SessionDone(i, ok)
  \/ \E i \in 1..MaxRuns : PushDone(i, TRUE)
  \/ \E i \in 1..MaxRuns : RegisterDone(i, "ok")
  \/ \E i \in 1..MaxRuns : BackoffDone(i)
  \/ HeartbeatTick
  \/ \E res \in RegisterResults : HeartbeatRegistered(res)
  \/ \E res \in {"healthy", "unhealthy", "rejected", "throws"} : HeartbeatHealth(res)
  \/ \E tm \in pub.pending : HeartbeatTimeout(tm)
  \/ \E f \in ConnFields : ConnChange(f, "failed")

SpecSafetyNet == InitFixed /\ [][NextSafetyNet]_vars

\* the heartbeat of a publisher whose connection comes and goes, and whose
\* start() does not fail
NextDegraded ==
  \/ PubTick
  \/ MainStart
  \/ \E i \in 1..MaxRuns : RestartWaitDone(i)
  \/ \E i \in 1..MaxRuns : SessionDone(i, TRUE)
  \/ \E i \in 1..MaxRuns : PushDone(i, TRUE)
  \/ \E i \in 1..MaxRuns : RegisterDone(i, "ok")
  \/ HeartbeatTick
  \/ \E res \in RegisterResults : HeartbeatRegistered(res)
  \/ \E res \in {"healthy", "unhealthy", "rejected", "throws"} : HeartbeatHealth(res)
  \/ \E tm \in pub.pending : HeartbeatTimeout(tm)
  \/ \E f \in ConnFields, s \in {"connected", "disconnected"} : ConnChange(f, s)
  \/ \E tm \in pub.pending : DisconnectTimeout(tm)

SpecDegraded == InitFixed /\ [][NextDegraded]_vars

\* the routes that look at X-Publisher-Secret, for every pair of a secret
\* of the worker and a header of the caller
InitAuth ==
  /\ now = 0
  /\ storage = [i \in Instances |-> Empty]
  /\ req = [r \in Req |-> Idle]
  /\ response = NoResponse
  /\ rateWin = [k \in Keys |-> [start |-> 0, calls |-> 0, allowed |-> 0, sent |-> 0]]
  /\ trackLog = [reg |-> <<>>, write |-> "none", idle |-> ""]
  /\ telemLog = <<>>
  /\ counterLog = [begun |-> 0, answered |-> 0, answers |-> {}, dup |-> FALSE]
  /\ last = NoLast
  /\ windowParam = 0
  /\ maxParam = 0
  /\ pub = NewPublisher
  /\ hbLog = NoCycles
  /\ codec = [kind |-> "none"]
  /\ env \in [expected : {"none", "s1"}, presented : {"none", "s1", "s2"}]

NextAuth ==
  \/ PublisherAuthorized /\ \E body \in RegisterBodies : Register(body)
  \/ PublisherAuthorized /\ Heartbeat
  \/ PublisherAuthorized /\ Unregister
  \/ TrackWriteRefused
  \/ \E body \in {[command |-> "1", param |-> "0"], [command |-> "1"]} :
       LedCommand(body)

SpecAuth == InitAuth /\ [][NextAuth]_vars

\* POST /led of two clients, one request after the other: each is a
\* rate-limit check with the window and the maximum of the worker, and what
\* the worker does with the answer
NextLed ==
  \/ Tick({60000, 60001})
  \/ \E key \in Keys : RateLimitArrive(1, key)
  \/ RateLimitBegin(1)
  \/ RateLimitCheck(1)
  \/ RateLimitStore(1)
  \/ \E res \in {"queued", "rejected"},
        body \in {[r |-> [num |-> 255], g |-> [num |-> 0], b |-> [num |-> 300]],
                  [r |-> [num |-> 1], g |-> [text |-> "x"], b |-> [num |-> 3]],
                  [r |-> [num |-> 1], g |-> [num |-> 2]]} :
       LedPost(body, res)

InitLed == InitCommon /\ windowParam = 60000 /\ maxParam = 10

SpecLed == InitLed /\ [][NextLed]_vars

\* the three instances side by side: rate-limit checks of two keys, track
\* writes and telemetry
NextFrame ==
  \/ Tick({1000})
  \/ \E key \in Keys : RateLimitArrive(1, key)
  \/ RateLimitBegin(1)
  \/ RateLimitCheck(1)
  \/ RateLimitStore(1)
  \/ Register([sessionId |-> "s1", trackName |-> "cam"])
  \/ Heartbeat
  \/ Unregister
  \/ RecordTelemetry(ParseUplinkPayload(Btoa(Frame(<<255, 0, 0>>, 1)), now))

InitFrame == InitCommon /\ windowParam = 1000 /\ maxParam = 1

SpecFrame == InitFrame /\ [][NextFrame]_vars

\* the publisher and the coordinator on one clock: every request of the
\* publisher is answered, the registrations are applied by the coordinator,
\* and the connection fails while the publisher is streaming
NextStream ==
  \/ StreamTick
  \/ MainStart
  \/ \E i \in 1..MaxRuns : RestartWaitDone(i)
  \/ \E i \in 1..MaxRuns : SessionDone(i, TRUE)
  \/ \E i \in 1..MaxRuns : PushDone(i, TRUE)
  \/ \E i \in 1..MaxRuns : RegisterApplied(i)
  \/ \E i \in 1..MaxRuns :
       i \in DOMAIN pub.runs /\ Run(pub, i).pc = "registered"
         /\ RegisterDone(i, "ok")
  \/ now - pub.beatAt >= HeartbeatIntervalMs /\ HeartbeatTick
  \/ HeartbeatApplied
  \/ pub.hb = "registered" /\ HeartbeatRegistered("ok")
  \/ HeartbeatHealth("healthy")
  \/ \E f \in ConnFields :
       pub.heartbeatTimer # 0 /\ InFlight(pub) = {} /\ ConnChange(f, "failed")

SpecStream == InitFixed /\ [][NextStream]_vars

(* C1: within one rate window the first max checks are answered 200 and    *)
(* every later check 429 with retryAfter = ceil((start + windowMs - now)   *)
(* / 1000), which is not negative.                                         *)
C1_FirstMaxAllowedThenRejected ==
  last.op = "ratelimit" =>
    LET w == last.win
        remaining == w.start + windowMs - last.now
    IN /\ w.calls <= maxRequests => response.status = 200
       /\ w.calls > maxRequests =>
            /\ response.status = 429
            /\ response.body >= 0
            /\ response.body * 1000 >= remaining
            /\ (response.body - 1) * 1000 < remaining

C1_Witness ==
  /\ last.op = "ratelimit"
  /\ last.win.calls > maxRequests
  /\ last.win.allowed = maxRequests
  /\ last.now > last.win.start
  /\ response.status = 429
  /\ response.body >= 1

(* C2: however the checks of one key overlap, at most max of them are      *)
(* answered allowed within one window.                                     *)
C2_AllowedNeverExceedsMax ==
  \A k \in Keys : rateWin[k].allowed <= maxRequests

\* a check is held at the gate while another check of the same key is
\* between its read and its write, with one slot left in the window
C2_Witness ==
  \E r1, r2 \in Req :
    /\ req[r1].pc = "put"
    /\ req[r2].pc = "queued"
    /\ req[r1].key = req[r2].key
    /\ req[r1].data.count = maxRequests

(* C3: a check later than windowStart + windowMs opens a fresh window: it  *)
(* is allowed and the stored window becomes {start: now, count: 1}; a      *)
(* check at exactly windowStart + windowMs belongs to the old window.      *)
C3_FreshWindowAfterExpiry ==
  (last.op = "ratelimit" /\ Len(last.before) = 1) =>
    LET old == last.before[1]
    IN /\ last.now - old.start > windowMs =>
            /\ response.status = 200
            /\ last.after = <<[start |-> last.now, count |-> 1]>>
       /\ last.now - old.start = windowMs =>
            /\ last.after[1].start = old.start
            /\ old.count >= maxRequests => response.status = 429
            /\ response.status = 200 => last.after[1].count = old.count + 1

C3_Witness ==
  /\ last.op = "ratelimit"
  /\ Len(last.before) = 1
  /\ last.now - last.before[1].start = windowMs + 1
  /\ last.before[1].count = maxRequests
  /\ response.status = 200
  /\ last.after = <<[start |-> last.now, count |-> 1]>>

C3_WitnessBoundary ==
  /\ last.op = "ratelimit"
  /\ Len(last.before) = 1
  /\ last.now - last.before[1].start = windowMs
  /\ response.status = 429

(* C4: after registerTrack(s, t) at time T and no later write, GET /current *)
(* returns {s, t, T} while now - T <= 60 s and 'stale' once now - T > 60 s; *)
(* it answers 'no-track' only when no record is stored.                     *)
C4_CurrentFreshThenStale ==
  last.op = "current" =>
    /\ trackLog.write = "register" =>
         LET g == trackLog.reg[1]
         IN /\ now - g.at <= 60000 =>
                 /\ response.status = 200
                 /\ response.body = [sessionId |-> g.sessionId,
                                     trackName |-> g.trackName,
                                     timestamp |-> g.at]
            /\ now - g.at > 60000 =>
                 /\ response.status = 404
                 /\ response.body = [error |-> "Track stale"]
    /\ response.body = [error |-> "No track available"] <=> last.before = <<>>

C4_Witness ==
  /\ last.op = "current"
  /\ trackLog.write = "register"
  /\ now - trackLog.reg[1].at = 60001
  /\ response.status = 404
  /\ response.body = [error |-> "Track stale"]

C4_WitnessFresh ==
  /\ last.op = "current"
  /\ trackLog.write = "register"
  /\ now - trackLog.reg[1].at = 60000
  /\ response.status = 200

(* C5: registerTrack with non-empty sessionId and trackName succeeds,       *)
(* replaces the record and stamps timestamp = now; the instance holds at    *)
(* most one TrackRecord, carrying the sessionId and trackName of the latest *)
(* successful registerTrack.                                                *)
C5_RegisterReplaces ==
  /\ (/\ last.op = "register"
      /\ ~Falsy(Field(last.input, "sessionId"))
      /\ ~Falsy(Field(last.input, "trackName"))) =>
       /\ response.status = 200
       /\ last.after = <<[sessionId |-> last.input.sessionId,
                          trackName |-> last.input.trackName,
                          timestamp |-> last.now]>>
  /\ DOMAIN storage["global"] \subseteq {"currentTrack"}
  /\ Has("global", "currentTrack") =>
       /\ Len(trackLog.reg) = 1
       /\ Get("global", "currentTrack").sessionId = trackLog.reg[1].sessionId
       /\ Get("global", "currentTrack").trackName = trackLog.reg[1].trackName

C5_Witness ==
  /\ last.op = "register"
  /\ response.status = 200
  /\ Len(last.before) = 1
  /\ last.before[1].sessionId # last.after[1].sessionId
  /\ last.before[1].timestamp < last.after[1].timestamp

(* C6: registerTrack with an empty or missing sessionId or trackName is     *)
(* answered 400 and leaves the stored record as it was.                     *)
C6_InvalidRegisterChangesNothing ==
  (/\ last.op = "register"
   /\ \/ Falsy(Field(last.input, "sessionId"))
      \/ Falsy(Field(last.input, "trackName"))) =>
    /\ response.status = 400
    /\ last.after = last.before
    /\ storage["global"] = last.pre

C6_Witness ==
  /\ last.op = "register"
  /\ "trackName" \notin DOMAIN last.input
  /\ ~Falsy(Field(last.input, "sessionId"))
  /\ response.status = 400
  /\ Len(last.before) = 1
  /\ last.before[1].timestamp < now

(* C7: heartbeat on an existing record changes only its timestamp, to now;  *)
(* heartbeat without a record answers NotFound and creates none.            *)
C7_HeartbeatTouchesTimestampOnly ==
  last.op = "heartbeat" =>
    /\ Len(last.before) = 1 =>
         /\ response.status = 200
         /\ last.after = <<[sessionId |-> last.before[1].sessionId,
                            trackName |-> last.before[1].trackName,
                            timestamp |-> last.now]>>
    /\ last.before = <<>> =>
         /\ response.status = 404
         /\ last.after = <<>>

C7_Witness ==
  /\ last.op = "heartbeat"
  /\ Len(last.before) = 1
  /\ last.before[1].timestamp < now
  /\ response.status = 200

C7_WitnessNone ==
  /\ last.op = "heartbeat"
  /\ last.before = <<>>
  /\ response.status = 404

(* C8: unregisterTrack always answers ok and leaves no record; a second     *)
(* unregisterTrack changes nothing; afterwards GET /current answers         *)
(* 'no-track' and heartbeat answers NotFound.                               *)
C8_UnregisterIdempotent ==
  /\ last.op = "unregister" =>
       /\ response.status = 200
       /\ response.body = [success |-> TRUE]
       /\ last.after = <<>>
       /\ last.prevWrite = "unregister" => storage["global"] = last.pre
  /\ (trackLog.write = "unregister" /\ last.op = "current") =>
       /\ response.status = 404
       /\ response.body = [error |-> "No track available"]
  /\ (trackLog.write = "unregister" /\ last.op = "heartbeat") =>
       /\ response.status = 404
       /\ last.after = <<>>

C8_Witness ==
  /\ last.op = "unregister"
  /\ last.prevWrite = "unregister"
  /\ Len(trackLog.reg) = 1
  /\ response.status = 200

(* C9: getTelemetry returns exactly the value of the latest recordTelemetry *)
(* and nothing of an earlier one; it answers NotFound exactly when          *)
(* recordTelemetry was never called.                                        *)
C9_TelemetryIsLatestWrite ==
  last.op = "getTelemetry" =>
    /\ response.status = 404 <=> telemLog = <<>>
    /\ telemLog # <<>> =>
         /\ response.status = 200
         /\ response.body = telemLog[1]

\* the latest value lacks a field that the one before it had
C9_Witness ==
  /\ last.op = "getTelemetry"
  /\ Len(telemLog) = 2
  /\ ~(DOMAIN telemLog[2] \subseteq DOMAIN telemLog[1])
  /\ response.status = 200
  /\ response.body = telemLog[1]

(* C10: incrementDownlinkCounter returns the previous count plus one,       *)
(* starting from 0; the stored count never decreases, no two calls return   *)
(* the same value, and after n calls the stored count is n.                 *)
C10_CounterCountsCalls ==
  /\ last.op = "downlink-counter" =>
       /\ response.body.count = last.stored + 1
       /\ Get("global", "downlinkCounter") = last.stored + 1
  /\ ~counterLog.dup
  /\ counterLog.answers = 1..counterLog.answered
  /\ (IF Has("global", "downlinkCounter")
      THEN Get("global", "downlinkCounter") ELSE 0) = counterLog.answered

\* a call is held at the gate while another is between its read and write
C10_Witness ==
  \E r1, r2 \in Req :
    /\ req[r1].pc = "put"
    /\ req[r1].path = "/downlink-counter"
    /\ req[r2].pc = "queued"
    /\ req[r2].path = "/downlink-counter"
    /\ counterLog.answered >= 1

(* C11: recordPullSuccess replaces PullStats with lastSuccess = now,        *)
(* recentFailures = 0 and the sessionId of the stored TrackRecord (none     *)
(* when there is no record), and leaves the TrackRecord as it was.          *)
C11_PullSuccessReplacesStats ==
  last.op = "pull-success" =>
    /\ response.status = 200
    /\ Has("global", "pullStats")
    /\ Get("global", "pullStats") =
         [lastSuccess |-> last.now, recentFailures |-> 0,
          sessionId |-> IF last.before = <<>> THEN "null"
                        ELSE last.before[1].sessionId]
    /\ last.after = last.before
    /\ \A k \in DOMAIN last.pre : k # "pullStats" => Has("global", k)
    /\ DOMAIN storage["global"] \subseteq DOMAIN last.pre \cup {"pullStats"}

\* statistics of an older session are replaced by those of the current one
C11_Witness ==
  /\ last.op = "pull-success"
  /\ Len(last.before) = 1
  /\ "pullStats" \in DOMAIN last.pre
  /\ last.pre["pullStats"].sessionId # last.before[1].sessionId
  /\ last.pre["pullStats"].lastSuccess < last.now
  /\ Get("global", "pullStats").sessionId = last.before[1].sessionId

(* C12: getHealth answers with the first rule that matches, in the order    *)
(* no-track, stale-heartbeat (older than 60 s), new-session (sessionId of   *)
(* the statistics present and different), pull-failures (recentFailures >=  *)
(* 3 and no success within 5 min), no-recent-viewers (last success more     *)
(* than 1 h old), otherwise healthy.                                        *)
C12_HealthFirstMatchingRule ==
  last.op = "health" =>
    LET tr == last.before
        ps == IF "pullStats" \in DOMAIN last.pre
              THEN last.pre["pullStats"] ELSE [none |-> TRUE]
        hasSid == "sessionId" \in DOMAIN ps /\ ps.sessionId # "null"
        hasLast == "lastSuccess" \in DOMAIN ps
        failures == IF "recentFailures" \in DOMAIN ps
                    THEN ps.recentFailures ELSE 0
        verdict == <<response.body.healthy,
                     IF "reason" \in DOMAIN response.body
                     THEN response.body.reason ELSE "">>
    IN verdict =
       IF tr = <<>> THEN <<FALSE, "no-track">>
       ELSE IF last.now - tr[1].timestamp > 60000
       THEN <<FALSE, "stale-heartbeat">>
       ELSE IF hasSid /\ ps.sessionId # tr[1].sessionId
       THEN <<TRUE, "new-session">>
       ELSE IF failures >= 3
               /\ (~hasLast \/ last.now - ps.lastSuccess > 300000)
       THEN <<FALSE, "pull-failures">>
       ELSE IF hasLast /\ last.now - ps.lastSuccess > 3600000
       THEN <<FALSE, "no-recent-viewers">>
       ELSE <<TRUE, "">>

\* fresh track, exactly 3 failures, last success between 5 min and 1 h old
C12_Witness ==
  /\ last.op = "health"
  /\ Len(last.before) = 1
  /\ last.now - last.before[1].timestamp <= 60000
  /\ "pullStats" \in DOMAIN last.pre
  /\ last.pre["pullStats"].recentFailures = 3
  /\ last.pre["pullStats"].sessionId = last.before[1].sessionId
  /\ "lastSuccess" \in DOMAIN last.pre["pullStats"]
  /\ last.now - last.pre["pullStats"].lastSuccess > 300000
  /\ last.now - last.pre["pullStats"].lastSuccess <= 3600000
  /\ response.body.reason = "pull-failures"

(* C13: a track older than 60 s whose statistics carry a different          *)
(* sessionId is reported unhealthy 'stale-heartbeat', never 'new-session'.  *)
C13_StaleBeforeSessionMismatch ==
  (/\ last.op = "health"
   /\ Len(last.before) = 1
   /\ last.now - last.before[1].timestamp > 60000
   /\ "pullStats" \in DOMAIN last.pre
   /\ last.pre["pullStats"].sessionId \notin {"null", last.before[1].sessionId})
  => response.body = [healthy |-> FALSE, reason |-> "stale-heartbeat"]

C13_Witness ==
  /\ last.op = "health"
  /\ Len(last.before) = 1
  /\ last.now - last.before[1].timestamp = 60001
  /\ "pullStats" \in DOMAIN last.pre
  /\ last.pre["pullStats"].sessionId \notin {"null", last.before[1].sessionId}
  /\ response.body = [healthy |-> FALSE, reason |-> "stale-heartbeat"]

(* C14: at most one execution of restart() - its stop, wait, start        *)
(* sequence - is in progress at any time; a restart request that arrives  *)
(* while one is in flight is dropped, also after a failed restart.        *)
C14_OneRestartInProgress == Cardinality(InFlight(pub)) <= 1

(* C15: while streaming, counted from a failure counter of 0, the third   *)
(* consecutive failed heartbeat cycle starts exactly one restart and the   *)
(* first and the second start none.                                        *)
C15_ThirdFailureRestarts ==
  (/\ last.op = "heartbeat"
   /\ last.cause # "ok"
   /\ last.streaming
   /\ last.base = 0) =>
     LET c == last.cycles
         n == Len(c)
         \* the failed cycles in a row that end the history
         streak == IF n = 1 \/ c[n - 1] = "S" THEN 1
                   ELSE IF n = 2 \/ c[n - 2] = "S" THEN 2 ELSE 3
     IN /\ streak = 3 => last.started = 1
        /\ streak \in {1, 2} => last.started = 0

(* C16: a successful heartbeat cycle sets the failure counter to 0, the    *)
(* cycles failed, successful, failed start no restart, and a heartbeat     *)
(* cycle starts a restart only as the third failure in a row.              *)
C16_SuccessResetsCounter ==
  (last.op = "heartbeat" /\ last.streaming) =>
     /\ last.cause = "ok" => pub.consecutiveHeartbeatFailures = 0
     /\ last.cycles = <<"F", "S", "F">> => last.started = 0
     /\ last.started = 1 => last.cycles = <<"F", "F", "F">>

(* C17: a failed restart starts exactly one retry, when its 30 s backoff   *)
(* is over: none exists while the backoff lasts, and never two.            *)
C17_OneRetryAfterBackoff ==
  /\ last.op = "retry" =>
       last.started = 1 /\ last.waited >= RetryBackoffMs
  /\ \A i \in 1..MaxRuns :
       \* the restarts started by the catch block of execution i
       LET retries == {j \in DOMAIN pub.runs : Run(pub, j).parent = i} IN
         /\ Cardinality(retries) <= 1
         /\ i \in DOMAIN pub.runs => retries = {}

C17_Witness ==
  /\ last.op = "retry"
  /\ last.started = 1
  /\ \E j \in DOMAIN pub.runs :
       /\ Run(pub, j).pc = "wait"
       /\ Run(pub, j).parent # 0
       /\ Run(pub, j).parent \notin DOMAIN pub.runs

C19_ColorRoundTrip ==
  (/\ last.op = "uplink"
   /\ codec.kind = "color"
   /\ {codec.r, codec.g, codec.b} \subseteq 0..255) =>
     /\ last.parsed # <<>>
     /\ last.parsed[1].color.r = codec.r
     /\ last.parsed[1].color.g = codec.g
     /\ last.parsed[1].color.b = codec.b
     /\ Atob(last.payload.data)[17] = codec.r
     /\ Atob(last.payload.data)[18] = codec.b
     /\ Atob(last.payload.data)[19] = codec.g

C19_Witness ==
  /\ last.op = "uplink"
  /\ codec.kind = "color"
  /\ codec.r = 1 /\ codec.g = 128 /\ codec.b = 255
  /\ last.parsed[1].color.g = 128
  /\ last.parsed[1].color.b = 255

(* C20: an uplink whose frame is not 24 bytes long is answered with a      *)
(* result, not an exception, carries no device state, and leaves the       *)
(* stored BusylightState as it was; only decoded frames are recorded.      *)
C20_BadFrameChangesNothing ==
  (last.op = "uplink" /\ last.auth = "ok") =>
     LET bad == /\ "data" \in DOMAIN last.payload
                /\ Len(Atob(last.payload.data)) # 24
         after == Snapshot("busylight-state", "busylightState")
     IN /\ bad =>
             /\ response.status = 200
             /\ response.body.deviceState = <<>>
             /\ "error" \in DOMAIN last.parsed[1]
             /\ after = last.before
        /\ after # last.before =>
             /\ "data" \in DOMAIN last.payload
             /\ Len(Atob(last.payload.data)) = 24
             /\ after = last.parsed

C20_Witness ==
  /\ last.op = "uplink"
  /\ last.auth = "ok"
  /\ "data" \in DOMAIN last.payload
  /\ Len(Atob(last.payload.data)) = 23
  /\ last.before # <<>>
  /\ Snapshot("busylight-state", "busylightState") = last.before

(* C23: a heartbeat cycle that ends with a non-healthy verdict adds one to *)
(* the consecutive-failure counter, and starts a restart only when the     *)
(* counter reaches 3 by it.                                                *)
C23_UnhealthyCountsAsFailure ==
  (last.op = "heartbeat" /\ last.cause = "health-unhealthy") =>
     /\ last.started = 1 => last.before + 1 >= MaxHeartbeatFailures
     /\ last.started = 0 => last.after = last.before + 1

(* C24: a heartbeat cycle whose registration or health request times out,  *)
(* fails in transport or is answered with a non-success status adds        *)
(* exactly one to the consecutive-failure counter and does not reset it;   *)
(* the counter is 0 afterwards only through the restart of the third       *)
(* failure. No request is sent twice in a cycle.                           *)
C24_FailedRequestCounts ==
  (last.op = "heartbeat"
     /\ last.cause \in {"register-rejected", "register-throws",
                        "register-timeout", "health-rejected",
                        "health-throws", "health-timeout"}) =>
     \/ last.after = last.before + 1
     \/ last.started = 1 /\ last.before + 1 >= MaxHeartbeatFailures

(* C25: a heartbeat timer tick during a restart does nothing: no request   *)
(* is sent, the counter is unchanged, no restart is requested.             *)
C25_NoBeatDuringRestart ==
  (last.op = "beat" /\ last.restarting) =>
     /\ last.what = "skipped"
     /\ last.started = 0
     /\ pub.hb = "idle"
     /\ pub.consecutiveHeartbeatFailures = last.before

(* C26: a heartbeat step that finds the connection state or the ICE state  *)
(* failed or closed requests a restart at once and sends neither the       *)
(* registration nor the health request, whatever the counter is.           *)
C26_BadConnectionRestarts ==
  (/\ last.op = "beat"
   /\ last.what # "skipped"
   /\ \/ last.pc.connectionState \in {"failed", "closed"}
      \/ last.pc.iceConnectionState \in {"failed", "closed"}) =>
     /\ last.what = "bad-connection"
     /\ last.started = 1
     /\ pub.hb = "idle"
     /\ \A tm \in pub.pending : tm.kind # "abort"

C26_Witness ==
  /\ last.op = "beat"
  /\ last.what = "bad-connection"
  /\ last.pc.iceConnectionState = "failed"
  /\ last.before > 0
  /\ last.started = 1

(* C27: a heartbeat step that finds the connection or ICE state            *)
(* disconnected, neither failed nor closed, goes on to its requests, and   *)
(* when they succeed with a healthy verdict the step starts no restart and *)
(* the timer stays set for the next step.                                  *)
C27_DisconnectedStaysDegraded ==
  LET disconnected(pc) ==
        /\ "disconnected" \in {pc.connectionState, pc.iceConnectionState}
        /\ {pc.connectionState, pc.iceConnectionState}
             \cap {"failed", "closed"} = {}
  IN /\ (last.op = "beat" /\ last.what # "skipped" /\ disconnected(last.pc))
          => last.what = "sent" /\ last.started = 0
     /\ (last.op = "heartbeat" /\ last.cause = "ok"
           /\ disconnected(last.seen))
          => /\ last.started = 0
             /\ pub.hb = "idle"
             /\ last.streaming => pub.intervals # {}

C27_Witness ==
  /\ last.op = "heartbeat"
  /\ last.cause = "ok"
  /\ last.seen.connectionState = "disconnected"
  /\ last.streaming
  /\ last.started = 0
  /\ pub.pc.connectionState = "disconnected"

C21_AuthAsymmetry ==
  LET matches == env.expected # "none" /\ env.presented = env.expected IN
  /\ last.op = "ledCommand" =>
       /\ last.forwarded => matches
       /\ storage = last.before
       /\ (env.expected # "none" /\ ~matches) => response.status = 401
  /\ last.op = "trackWrite" =>
       /\ env.expected # "none" /\ ~matches
       /\ response.status = 401
       /\ storage = last.before
  /\ last.op \in {"register", "register-throws", "heartbeat", "unregister"} =>
       env.expected = "none" \/ matches

(* C22: a POST /led that the rate limiter rejects is answered 429 with the *)
(* seconds to wait and sends no downlink, so no client has more than 10    *)
(* colour downlinks queued within one rate window.                         *)
C22_LimitedLedSendsNothing ==
  /\ last.op = "led" =>
       /\ last.limited =>
            /\ response.status = 429
            /\ response.body.retryAfter \in 0..60
            /\ ~last.called
            /\ ~last.sent
       /\ last.calls > 10 => last.limited
  /\ \A k \in Keys : rateWin[k].sent <= 10

C22_Witness ==
  /\ last.op = "led"
  /\ last.limited
  /\ response.status = 429
  /\ rateWin[last.key].sent = 10

(* C29: every downlink that is queued at the network server adds one to    *)
(* the downlink counter of the coordinator.                                *)
C29_QueuedDownlinkCounted ==
  (last.op = "led" /\ last.sent) =>
     LET before == IF "downlinkCounter" \in DOMAIN last.before["global"]
                   THEN last.before["global"]["downlinkCounter"] ELSE 0
     IN /\ Has("global", "downlinkCounter")
        /\ Get("global", "downlinkCounter") = before + 1

(* C30: a step changes the storage of one instance only, the one its       *)
(* operation was sent to, and a rate-limit check of one key changes the    *)
(* stored window of no other key.                                          *)
C30_InstancesIndependent ==
  [][LET ops == [ratelimit |-> {"ratelimit"},
                 global |-> {"register", "heartbeat", "unregister"},
                 busylight |-> {"recordTelemetry"}]
         opsOf(i) == IF i = "ratelimit" THEN ops.ratelimit
                     ELSE IF i = "global" THEN ops.global ELSE ops.busylight
     IN /\ \A i \in Instances :
             storage'[i] # storage[i] => last'.op \in opsOf(i)
        /\ \A k \in Keys :
             LET wk == WindowKey(k)
                 rl == storage["ratelimit"]
                 rl2 == storage'["ratelimit"]
             IN (wk \in DOMAIN rl2 /\ (wk \notin DOMAIN rl \/ rl2[wk] # rl[wk]))
                  => last'.op = "ratelimit" /\ last'.key = k
        /\ \A k \in Keys :
             WindowKey(k) \in DOMAIN storage["ratelimit"]
               => WindowKey(k) \in DOMAIN storage'["ratelimit"]]_vars

C30_Witness ==
  /\ last.op = "ratelimit"
  /\ last.key = "a"
  /\ last.after # last.before
  /\ Has("ratelimit", WindowKey("b"))
  /\ Has("global", "currentTrack")
  /\ Has("busylight-state", "busylightState")

(* C31: a rate-limit check answered 429 leaves the whole storage as it     *)
(* was, so the stored window keeps its start and count; and the stored     *)
(* count of every key is at most max.                                      *)
C31_RejectedCheckStoresNothing ==
  /\ [][(response'.path = "/ratelimit" /\ response'.status = 429)
          => storage' = storage]_vars
  /\ [](\A k \in Keys :
          Has("ratelimit", WindowKey(k))
            => Get("ratelimit", WindowKey(k)).count <= maxRequests)

C31_Witness ==
  /\ last.op = "ratelimit"
  /\ response.status = 429
  /\ Has("ratelimit", WindowKey(last.key))
  /\ Get("ratelimit", WindowKey(last.key)).count = maxRequests
  /\ last.now > Get("ratelimit", WindowKey(last.key)).start
  /\ \E k \in Keys \ {last.key} : Has("ratelimit", WindowKey(k))

(* C32: the stored PullStats, when present, has recentFailures = 0, and    *)
(* getHealth never answers 'pull-failures'.                                *)
C32_NoStoredFailures ==
  /\ Has("global", "pullStats") => Get("global", "pullStats").recentFailures = 0
  /\ last.op = "health" =>
       ("reason" \in DOMAIN response.body
          => response.body.reason # "pull-failures")

\* a fresh track of the session of the statistics, whose last success is
\* more than 5 min old: the rule would match with 3 failures stored
C32_Witness ==
  /\ last.op = "health"
  /\ Len(last.before) = 1
  /\ last.now - last.before[1].timestamp <= 60000
  /\ "pullStats" \in DOMAIN last.pre
  /\ last.pre["pullStats"].sessionId = last.before[1].sessionId
  /\ last.now - last.pre["pullStats"].lastSuccess > 300000
  /\ last.now - last.pre["pullStats"].lastSuccess <= 3600000
  /\ response.body.healthy

(* C33: once getHealth has answered 'no-recent-viewers' for a session and  *)
(* no pull success has been recorded since, every getHealth on a fresh     *)
(* track of another session answers healthy 'new-session'.                 *)
C33_IdleRestartedOnce ==
  [][(/\ last'.op = "health"
      /\ trackLog.idle # ""
      /\ Has("global", "currentTrack")
      /\ Get("global", "currentTrack").sessionId # trackLog.idle
      /\ now - Get("global", "currentTrack").timestamp <= StaleMs)
       => response'.body = [healthy |-> TRUE, reason |-> "new-session"]]_vars

(* C34: get-current-track answers 200 with the record exactly when the     *)
(* verdict of get-health on the same storage at the same instant is        *)
(* neither 'no-track' nor 'stale-heartbeat'.                               *)
C34_CurrentAgreesWithHealth ==
  last.op = "current" =>
    LET v == HealthVerdict(Snapshot("global", "currentTrack"),
                           StoredPullStats, now)
        absent == "reason" \in DOMAIN v
                    /\ v.reason \in {"no-track", "stale-heartbeat"}
    IN /\ response.status = 200 <=> ~absent
       /\ response.status # 200 => response.status = 404
       /\ response.status = 200 => response.body = Get("global", "currentTrack")

\* a track exactly 60 s old is returned and is not 'stale-heartbeat'
C34_Witness ==
  /\ last.op = "current"
  /\ response.status = 200
  /\ now - response.body.timestamp = 60000
  /\ Has("global", "pullStats")
  /\ Get("global", "pullStats").sessionId # response.body.sessionId

(* C40: a POST /led that passes the rate limiter and whose body lacks r, g *)
(* or b or carries a value that is not a number is answered 400 and sends  *)
(* no downlink, and the check made for it is counted in the stored window. *)
C40_InvalidLedStillCounted ==
  (last.op = "led" /\ ~last.valid /\ ~last.limited) =>
    /\ response.status = 400
    /\ ~last.called
    /\ ~last.sent
    /\ storage = last.before
    /\ Has("ratelimit", WindowKey(last.key))
    /\ Get("ratelimit", WindowKey(last.key)).count = last.calls
    /\ last.calls \in 1..10

\* the tenth request of a window is invalid and no downlink was sent in it:
\* the next request of the window is refused
C40_Witness ==
  /\ last.op = "led"
  /\ ~last.valid
  /\ response.status = 400
  /\ last.calls = 10
  /\ rateWin[last.key].sent = 0

(* C36: at most one periodic heartbeat timer (setInterval) is active in    *)
(* the publisher at any time.                                              *)
C36_OneHeartbeatTimer == Cardinality(pub.intervals) <= 1

(* C38: the exit of an encoder that stop() has signalled starts no         *)
(* restart; only the exit of the encoder that is running can.              *)
C38_StoppedEncoderStartsNoRestart ==
  (last.op = "encoder-restart" /\ last.by = "stop") => last.started = 0

(* C39: the publisher is never left for ever with the restart flag set, no *)
(* heartbeat timer and no restart attempt or retry waiting for its timer.  *)
C39_RestartNeverStuck ==
  (/\ pub.isRestarting
   /\ pub.heartbeatTimer = 0
   /\ Waiting(pub) = {}
   /\ pub.nruns < MaxRuns)
    ~> (\/ ~pub.isRestarting /\ pub.heartbeatTimer # 0
        \/ Waiting(pub) # {}
        \/ pub.exited
        \/ pub.nruns = MaxRuns)

(* C35: while the publisher is streaming and every heartbeat registration  *)
(* is answered within its timeout, the stored TrackRecord exists and is    *)
(* never older than 60 s.                                                  *)
C35_StreamingTrackFresh ==
  (pub.heartbeatTimer # 0 /\ ~pub.isRestarting /\ InFlight(pub) = {}) =>
     /\ Has("global", "currentTrack")
     /\ ~IsStale(Get("global", "currentTrack"))

(* C37: once a restart has completed and its session is registered, no     *)
(* registration stores the session id of an earlier session.               *)
C37_NoSupersededSession ==
  (/\ last.op = "applied"
   /\ pub.heartbeatTimer # 0 /\ ~pub.isRestarting /\ InFlight(pub) = {}) =>
     Get("global", "currentTrack").sessionId = pub.sessionId

====
